---------------------------- MODULE Spec2Model ----------------------------
(***************************************************************************)
(* EchoSession: the WebSocket endpoint (src/main.py), the connection       *)
(* manager (src/temp_submission/services/websocket.py), the LLM service    *)
(* (src/services/llm.py), the post-session processor                       *)
(* (src/services/processor.py) and the database service                    *)
(* (src/services/database.py), as one state machine.                       *)
(*                                                                         *)
(* Every connection runs websocket_endpoint as one coroutine on a single   *)
(* asyncio event loop.  The Supabase and Groq clients are synchronous, so  *)
(* a coroutine gives up the loop only at a WebSocket await (accept,        *)
(* send_json, receive_text, close); `running` is the coroutine that holds  *)
(* the loop between two such awaits (0: the loop is free).                 *)
(*                                                                         *)
(* Time is counted in ticks of half a second, so that int(total_seconds()) *)
(* truncates something.                                                    *)
(***************************************************************************)
EXTENDS Integers, Sequences, FiniteSets, TLC

(* ------------------------------ bounds -------------------------------- *)
NConns == 2          \* connections opened against the server
MaxMsgs == 1         \* frames the client of connection 1 sends (the others: one less)
MaxFrags == 2        \* fragments the Completion Engine delivers per stream
MaxAhead == 0        \* ticks the wall clock advances past the first reading
MaxBack == 1         \* ticks before the first reading the wall clock may be set back to
MaxFaults == 1       \* remote calls that fail, and clock set-backs, in one run

TicksPerSec == 1     \* ticks of the wall clock in a second

Conns == 1..NConns
Null == "null"        \* None, where a string may stand
None == <<>>          \* None, where a number may stand
Some(v) == <<v>>

(* ------------------------ session identifiers ------------------------- *)
Rep(ch, n) == [i \in 1..n |-> ch]

Canon(ch) == Rep(ch, 8) \o <<"-">> \o Rep(ch, 4) \o <<"-">> \o Rep(ch, 4)
             \o <<"-">> \o Rep(ch, 4) \o <<"-">> \o Rep(ch, 12)

\* The path parameter of each connection attempt, as its characters.
IdText(id) ==
  CASE id = "u1" -> Canon("1")
    [] id = "u2" -> <<"u","r","n",":","u","u","i","d",":">> \o Canon("a")
    [] id = "bad" -> <<"n","o","t","-","a","-","u","u","i","d">>
    [] id = "badhex" -> <<"g">> \o Rep("1", 7) \o <<"-">> \o Rep("1", 4) \o <<"-">>
                        \o Rep("1", 4) \o <<"-">> \o Rep("1", 4) \o <<"-">> \o Rep("1", 12)
    [] id = "plus" -> <<"+">> \o Rep("1", 7) \o <<"-">> \o Rep("1", 4) \o <<"-">>
                        \o Rep("1", 4) \o <<"-">> \o Rep("1", 4) \o <<"-">> \o Rep("1", 12)

Ids == {"u1", "u2", "bad", "badhex", "plus"}

HexDigits == {"0","1","2","3","4","5","6","7","8","9",
              "a","b","c","d","e","f","A","B","C","D","E","F"}

\* s.replace(pat, ""), left to right.
RECURSIVE RemoveAll(_, _)
RemoveAll(s, pat) ==
  IF Len(s) < Len(pat) THEN s
  ELSE IF SubSeq(s, 1, Len(pat)) = pat
       THEN RemoveAll(SubSeq(s, Len(pat) + 1, Len(s)), pat)
       ELSE <<s[1]>> \o RemoveAll(Tail(s), pat)

\* s.strip(chars)
RECURSIVE LStrip(_, _)
LStrip(s, chars) ==
  IF s # <<>> /\ s[1] \in chars THEN LStrip(Tail(s), chars) ELSE s

RECURSIVE RStrip(_, _)
RStrip(s, chars) ==
  IF s # <<>> /\ s[Len(s)] \in chars THEN RStrip(SubSeq(s, 1, Len(s) - 1), chars) ELSE s

Strip(s, chars) == RStrip(LStrip(s, chars), chars)

\* Digits with single underscores between them (after an optional one that
\* follows a base prefix), as int() reads them.
RECURSIVE DigitRun(_, _)
DigitRun(s, afterDigit) ==
  IF s = <<>> THEN afterDigit
  ELSE IF s[1] \in HexDigits THEN DigitRun(Tail(s), TRUE)
  ELSE IF s[1] = "_" THEN afterDigit /\ Len(s) > 1 /\ s[2] \in HexDigits
                          /\ DigitRun(Tail(s), FALSE)
  ELSE FALSE

\* The characters int() strips from both ends. Characters are taken from Latin-1
\* (U+0000 to U+00FF); in it these are U+0009 to U+000D, U+0020, U+0085 and
\* U+00A0, and the only decimal digits are the ASCII ones. U+001C to U+001F,
\* which str.isspace() holds for, are not stripped.
Whitespace == {" ", "\t", "\n", "\r", "\f", "", "", " "}

\* int(hex, 16) does not raise ValueError.
IntBase16Ok(hex) ==
  LET t == Strip(hex, Whitespace)
      u == IF t # <<>> /\ t[1] \in {"+", "-"} THEN Tail(t) ELSE t
      pre == Len(u) >= 2 /\ u[1] = "0" /\ u[2] \in {"x", "X"}
      v == IF pre THEN SubSeq(u, 3, Len(u)) ELSE u
      w == IF pre /\ v # <<>> /\ v[1] = "_" THEN Tail(v) ELSE v
  IN  w # <<>> /\ w[1] \in HexDigits /\ DigitRun(w, FALSE)

\* uuid.UUID(session_id) does not raise ValueError.
UUID(session_id) ==
  LET h1 == RemoveAll(RemoveAll(session_id, <<"u","r","n",":">>), <<"u","u","i","d",":">>)
      h2 == RemoveAll(Strip(h1, {"{", "}"}), <<"-">>)
  IN  Len(h2) = 32 /\ IntBase16Ok(h2)

\* A well-formed UUID: groups of 8, 4, 4, 4 and 12 hexadecimal digits with hyphens
\* between them, after "urn:uuid:" or not.
WellFormed(session_id) ==
  LET urn == <<"u","r","n",":","u","u","i","d",":">>
      t == IF Len(session_id) >= Len(urn) /\ SubSeq(session_id, 1, Len(urn)) = urn
           THEN SubSeq(session_id, Len(urn) + 1, Len(session_id)) ELSE session_id
  IN  /\ Len(t) = 36
      /\ \A i \in 1..36 : IF i \in {9, 14, 19, 24} THEN t[i] = "-" ELSE t[i] \in HexDigits

(* ------------------------------- state -------------------------------- *)
VARIABLES
  session_id,          \* per connection: the identifier in its path
  frames,              \* per connection: the frames its client has yet to send
  pc,                  \* per connection: where its coroutine stands
  running,             \* the coroutine holding the event loop, or 0
  ws_open,             \* per connection: the client's end is still there
  close_code,          \* per connection: the close code the server sent, or 0
  active_connections,  \* ConnectionManager.active_connections: id -> connection
  chat_sessions,       \* LLMService.chat_sessions: id -> history
  session_metadata,    \* the store's session table: id -> row
  event_log,           \* the store's event table, in insertion order
  clock,               \* the last reading of datetime.utcnow()
  faults,              \* remote calls that have failed and clock set-backs, so far
  nmsgs,               \* per connection: frames received so far
  loc,                 \* per connection: the locals of its coroutine
  trace                \* per connection: the effects of its current operation, in order

vars == <<session_id, frames, pc, running, ws_open, close_code, active_connections,
          chat_sessions, session_metadata, event_log, clock, faults, nmsgs, loc, trace>>


(* ------------------------- the transcript store ----------------------- *)
\* What a remote call may raise, as str(e).
StoreDown == "store unavailable"
DuplicateKey == "duplicate key"
ForeignKey == "foreign key violation"
LlmDown == "completion unavailable"

CanFail == faults < MaxFaults

\* datetime.utcnow(): a reading at or after the last one, or, when the wall clock
\* was set back in between, before it.
UtcNow(now, fault) ==
  /\ now \in -MaxBack..MaxAhead
  /\ fault = (now < clock)
  /\ fault => CanFail
  /\ clock' = now

\* session_metadata holds one row per session_id: a second insert is refused.
SessionInsertAccepted(sid) == sid \notin DOMAIN session_metadata

EventInsertUnchecked(sid) == TRUE

\* event_log.session_id references session_metadata.
EventInsertAccepted(sid) == sid \in DOMAIN session_metadata

\* DatabaseService.create_session: the row it inserts.
NewSession(user_id, sid, now) ==
  [session_id |-> sid, user_id |-> user_id, start_time |-> now, end_time |-> None,
   duration_seconds |-> None, session_summary |-> Null]

\* DatabaseService.log_event: the row it inserts.
NewEvent(sid, event_type, content, metadata, now) ==
  [session_id |-> sid, event_type |-> event_type, content |-> content, metadata |-> metadata,
   timestamp |-> now]

\* ORDER BY timestamp: rows of the same tick stay in the order of their insertion.
RECURSIVE InsertByTimestamp(_, _)
InsertByTimestamp(sorted, e) ==
  IF sorted = <<>> THEN <<e>>
  ELSE IF sorted[Len(sorted)].timestamp <= e.timestamp THEN Append(sorted, e)
  ELSE Append(InsertByTimestamp(SubSeq(sorted, 1, Len(sorted) - 1), e), sorted[Len(sorted)])

RECURSIVE OrderByTimestamp(_)
OrderByTimestamp(rows) ==
  IF rows = <<>> THEN <<>>
  ELSE InsertByTimestamp(OrderByTimestamp(SubSeq(rows, 1, Len(rows) - 1)), rows[Len(rows)])

\* .eq("session_id", session_id) on a state of the events table.
EventRows(log, sid) == SelectSeq(log, LAMBDA e : e.session_id = sid)

\* DatabaseService.get_session_events
SessionEvents(sid) == OrderByTimestamp(EventRows(event_log, sid))

UpdatedRowOverwriting(row, end_time, duration_seconds, session_summary) ==
  [row EXCEPT
     !.end_time = IF end_time # None THEN end_time ELSE @,
     !.duration_seconds = duration_seconds,
     !.session_summary = IF session_summary \notin {Null, ""} THEN session_summary ELSE @]

\* DatabaseService.update_session: update_data, applied to the row if there is one.
UpdatedRow(row, end_time, duration_seconds, session_summary) ==
  [row EXCEPT
     !.end_time = IF end_time # None THEN end_time ELSE @,
     !.duration_seconds = IF duration_seconds # None THEN duration_seconds ELSE @,
     !.session_summary = IF session_summary \notin {Null, ""} THEN session_summary ELSE @]

UpdateSession(sid, end_time, duration_seconds, session_summary) ==
  IF sid \in DOMAIN session_metadata
  THEN [session_metadata EXCEPT
          ![sid] = UpdatedRow(@, end_time, duration_seconds, session_summary)]
  ELSE session_metadata

(* ------------------------------ messages ------------------------------ *)
\* The frames a client sends.
Msgs == {"hi", "{\"type\":\"chat\",\"content\":\"yo\"}", "{\"type\":\"ping\"}", "[1]",
         "/function", "/function get_weather", "/function echo {\"k\":1}",
         "/function echo {bad"}

\* json.loads(message), then data.get("content", message): the text handle_message
\* resolves, or Null when that raises something other than JSONDecodeError.
MessageText(message) ==
  CASE message = "{\"type\":\"chat\",\"content\":\"yo\"}" -> "yo"
    [] message = "{\"type\":\"ping\"}" -> message
    [] message = "[1]" -> Null
    [] OTHER -> message

\* str(e) of what json.loads(...).get raises on a JSON value that is no object.
NoGetAttr == "'list' object has no attribute 'get'"

\* message.split(maxsplit=2)
Split2(message) ==
  CASE message = "/function" -> <<"/function">>
    [] message = "/function get_weather" -> <<"/function", "get_weather">>
    [] message = "/function echo {\"k\":1}" -> <<"/function", "echo", "{\"k\":1}">>
    [] message = "/function echo {bad" -> <<"/function", "echo", "{bad">>
    [] OTHER -> <<message>>

\* message_text.lower().startswith("/function"): of the frames of Msgs, those
\* whose first word is /function.
IsCommand(message_text) == Split2(message_text)[1] = "/function"

\* json.loads(parts[2]): the parameters, or Null when it raises.
JsonParams(text) == IF text = "{\"k\":1}" THEN "{k: 1}" ELSE Null

\* str(e) of the JSONDecodeError json.loads("{bad") raises.
BadJson == "Expecting property name enclosed in double quotes: line 1 column 2 (char 1)"

SimulateKnownOnly(function_name, parameters) ==
  CASE function_name = "get_weather" -> "The weather is sunny with a temperature of 72Â°F"
    [] function_name = "get_user_info" -> "User information retrieved successfully"
    [] function_name = "search_database" -> "Found 5 matching records"
    [] OTHER -> ""

\* LLMService.simulate_function_call: result["result"]
SimulateFunctionCall(function_name, parameters) ==
  CASE function_name = "get_weather" -> "The weather is sunny with a temperature of 72Â°F"
    [] function_name = "get_user_info" -> "User information retrieved successfully"
    [] function_name = "search_database" -> "Found 5 matching records"
    [] OTHER -> "Function " \o function_name \o " executed"

\* LLMService.simulate_function_call: result["data"], rendered as text
SimulateFunctionData(function_name, parameters) ==
  CASE function_name = "get_weather" -> "{temperature: 72, condition: sunny}"
    [] function_name = "get_user_info" -> "{name: Test User, email: user@example.com}"
    [] function_name = "search_database" ->
         "{count: 5, records: [Record 1, Record 2, Record 3]}"
    [] OTHER -> parameters

\* delta.content of the n-th chunk of a stream that has text; a chunk may also
\* come without text.
FragText(n) == IF n = 1 THEN "a" ELSE IF n = 2 THEN "b" ELSE "c"

Frags(n) == {FragText(n), ""}

(* --------------------------- the coroutines --------------------------- *)
NoLocals ==
  [message |-> Null, message_text |-> Null, user_message |-> Null, exc |-> Null,
   full_response |-> "", gen_full |-> "", chunk |-> Null, gen_over |-> FALSE,
   nfrag |-> 0, function_name |-> Null, parameters |-> Null, result |-> Null,
   hist |-> None, session |-> None, events |-> <<>>, summary |-> Null, end_time |-> None,
   duration_seconds |-> None]

\* websocket.query_params.get("user_id", "anonymous")
UserId(c) == IF c = 1 THEN "alice" ELSE "anonymous"

\* The frame sequences of at most n frames.
RECURSIVE Scripts(_)
Scripts(n) ==
  IF n <= 0 THEN {<<>>}
  ELSE Scripts(n - 1) \cup {Append(q, m) : q \in {r \in Scripts(n - 1) : Len(r) = n - 1},
                                           m \in Msgs}

\* Connection 1 is the one whose client talks.
Start ==
  /\ session_id \in [Conns -> Ids]
  /\ frames \in [Conns -> Scripts(MaxMsgs)]
  /\ \A c \in Conns \ {1} : Len(frames[c]) < MaxMsgs
  /\ pc = [c \in Conns |-> "start"]
  /\ running = 0
  /\ ws_open = [c \in Conns |-> TRUE]
  /\ close_code = [c \in Conns |-> 0]
  /\ active_connections = <<>>
  /\ chat_sessions = <<>>
  /\ session_metadata = <<>>
  /\ event_log = <<>>
  /\ clock = 0
  /\ faults = 0
  /\ nmsgs = [c \in Conns |-> 0]
  /\ loc = [c \in Conns |-> NoLocals]
  /\ trace = [c \in Conns |-> <<>>]

\* The coroutine of connection c may take a step.
Turn(c) == running \in {0, c}

Goto(c, label) == pc' = [pc EXCEPT ![c] = label]
SetLoc(c, r) == loc' = [loc EXCEPT ![c] = r]
Emit(c, e) == trace' = [trace EXCEPT ![c] = Append(@, e)]

Effect(k, type, content, fn, to, ok) ==
  [k |-> k, type |-> type, content |-> content, fn |-> fn, to |-> to, ok |-> ok]

\* ConnectionManager.send_message: the frame goes to the handle registered for
\* session_id, if any (to = 0: dropped), and reaches the client if its end is
\* still there (send_json raising is swallowed).
SentTo(sid) == IF sid \in DOMAIN active_connections THEN active_connections[sid] ELSE 0

SendEffect(sid, type, content, fn) ==
  LET to == SentTo(sid)
  IN  Effect("send", type, content, fn, to, IF to = 0 THEN FALSE ELSE ws_open[to])

\* send_message awaits send_json only when a handle is registered.
SendMessage(c, type, content, fn) ==
  /\ Emit(c, SendEffect(session_id[c], type, content, fn))
  /\ running' = IF SentTo(session_id[c]) = 0 THEN c ELSE 0

LogEffect(event_type, content, ok) == Effect("log", event_type, content, Null, 0, ok)

Env == <<session_id, frames, ws_open, close_code>>
Store == <<session_metadata, event_log>>

(* ---------------- websocket_endpoint and ConnectionManager.connect ---- *)
\* main.py 48-53: uuid.UUID raises, the socket is closed with 1008, nothing else runs.
RejectInvalid(c) ==
  /\ Turn(c) /\ pc[c] = "start"
  /\ ~UUID(IdText(session_id[c]))
  /\ close_code' = [close_code EXCEPT ![c] = 1008]
  /\ ws_open' = [ws_open EXCEPT ![c] = FALSE]
  /\ Goto(c, "rejected")
  /\ running' = 0
  /\ UNCHANGED <<session_id, frames, active_connections, chat_sessions, Store, clock,
                 faults, nmsgs, loc, trace>>

\* main.py 48-58, websocket.py 31: the identifier parses; connect awaits accept().
AcceptValid(c) ==
  /\ Turn(c) /\ pc[c] = "start"
  /\ UUID(IdText(session_id[c]))
  /\ Goto(c, "accept")
  /\ running' = 0
  /\ UNCHANGED <<Env, active_connections, chat_sessions, Store, clock, faults,
                 nmsgs, loc, trace>>

\* websocket.py 32
Register(c) ==
  /\ Turn(c) /\ pc[c] = "accept"
  /\ active_connections' =
       [s \in DOMAIN active_connections \cup {session_id[c]} |->
          IF s = session_id[c] THEN c ELSE active_connections[s]]
  /\ Goto(c, "create_session")
  /\ running' = c
  /\ UNCHANGED <<Env, chat_sessions, Store, clock, faults, nmsgs, loc, trace>>

\* websocket.py 36, database.py 27-38: start_time is a reading of the clock, taken
\* before the insert.  Ticks are counted from the start of the server.
CreateSession(c) ==
  /\ Turn(c) /\ pc[c] = "create_session"
  /\ running' = c
  /\ \E now \in -MaxBack..MaxAhead, fault \in BOOLEAN :
       /\ UtcNow(now, fault)
       /\ LET spent == IF fault THEN 1 ELSE 0
          IN  \/ /\ SessionInsertAccepted(session_id[c])
                 /\ session_metadata' =
                      [s \in DOMAIN session_metadata \cup {session_id[c]} |->
                         IF s = session_id[c] THEN NewSession(UserId(c), s, now)
                         ELSE session_metadata[s]]
                 /\ Emit(c, Effect("create_session", Null, Null, Null, 0, TRUE))
                 /\ Goto(c, "log_start")
                 /\ faults' = faults + spent
                 /\ UNCHANGED loc
              \/ /\ ~SessionInsertAccepted(session_id[c])
                 /\ SetLoc(c, [loc[c] EXCEPT !.exc = DuplicateKey])
                 /\ Emit(c, Effect("create_session", Null, Null, Null, 0, FALSE))
                 /\ Goto(c, "connect_error")
                 /\ faults' = faults + spent
                 /\ UNCHANGED session_metadata
              \/ /\ faults + spent < MaxFaults
                 /\ faults' = faults + spent + 1
                 /\ SetLoc(c, [loc[c] EXCEPT !.exc = StoreDown])
                 /\ Emit(c, Effect("create_session", Null, Null, Null, 0, FALSE))
                 /\ Goto(c, "connect_error")
                 /\ UNCHANGED session_metadata
  /\ UNCHANGED <<Env, active_connections, chat_sessions, event_log, nmsgs>>

\* DatabaseService.log_event called by coroutine c, which goes to `next` when the
\* row is inserted and to `handler` with the exception when the call raises.
LogEvent(c, event_type, content, metadata, next, handler) ==
  \E now \in -MaxBack..MaxAhead, fault \in BOOLEAN :
    /\ UtcNow(now, fault)
    /\ LET spent == IF fault THEN 1 ELSE 0
       IN  \/ /\ EventInsertAccepted(session_id[c])
              /\ event_log' = Append(event_log, NewEvent(session_id[c], event_type, content,
                                                         metadata, now))
              /\ Emit(c, LogEffect(event_type, content, TRUE))
              /\ Goto(c, next)
              /\ faults' = faults + spent
              /\ UNCHANGED loc
           \/ /\ ~EventInsertAccepted(session_id[c])
              /\ SetLoc(c, [loc[c] EXCEPT !.exc = ForeignKey])
              /\ Emit(c, LogEffect(event_type, content, FALSE))
              /\ Goto(c, handler)
              /\ faults' = faults + spent
              /\ UNCHANGED event_log
           \/ /\ faults + spent < MaxFaults
              /\ faults' = faults + spent + 1
              /\ SetLoc(c, [loc[c] EXCEPT !.exc = StoreDown])
              /\ Emit(c, LogEffect(event_type, content, FALSE))
              /\ Goto(c, handler)
              /\ UNCHANGED event_log

LogSessionStartLenient(c) ==
  /\ Turn(c) /\ pc[c] = "log_start"
  /\ running' = c
  /\ LogEvent(c, "system_event", "Session started", [user_id |-> UserId(c)],
              "welcome", "welcome")
  /\ UNCHANGED <<Env, active_connections, chat_sessions, session_metadata, nmsgs>>

\* websocket.py 39-44
LogSessionStart(c) ==
  /\ Turn(c) /\ pc[c] = "log_start"
  /\ running' = c
  /\ LogEvent(c, "system_event", "Session started", [user_id |-> UserId(c)],
              "welcome", "connect_error")
  /\ UNCHANGED <<Env, active_connections, chat_sessions, session_metadata, nmsgs>>

\* websocket.py 47-53, then main.py 63: the coroutine awaits receive_text.
SendWelcome(c) ==
  /\ Turn(c) /\ pc[c] = "welcome"
  /\ Emit(c, SendEffect(session_id[c], "system",
                        "Connected to AI assistant. How can I help you today?", Null))
  /\ running' = 0
  /\ Goto(c, "receive")
  /\ UNCHANGED <<Env, active_connections, chat_sessions, Store, clock, faults, nmsgs, loc>>

\* websocket.py 54-59, then main.py 63
SendConnectError(c) ==
  /\ Turn(c) /\ pc[c] = "connect_error"
  /\ Emit(c, SendEffect(session_id[c], "error",
                        "Session initialization failed: " \o loc[c].exc, Null))
  /\ running' = 0
  /\ Goto(c, "receive")
  /\ UNCHANGED <<Env, active_connections, chat_sessions, Store, clock, faults, nmsgs, loc>>

\* The client goes away: from then on send_json to it raises and receive_text
\* raises WebSocketDisconnect.  The server sees it at its next await only, so the
\* step is taken while the loop is free.
ClientClose(c) ==
  /\ running = 0
  /\ pc[c] \notin {"start", "accept", "rejected", "done"}
  /\ ws_open[c]
  /\ ws_open' = [ws_open EXCEPT ![c] = FALSE]
  /\ UNCHANGED <<session_id, frames, close_code, pc, running, active_connections, chat_sessions,
                 Store, clock, faults, nmsgs, loc, trace>>

\* main.py 63: a text frame arrives (the client may be gone since it sent it).
ReceiveText(c) ==
  /\ Turn(c) /\ pc[c] = "receive"
  /\ frames[c] # <<>>
  /\ SetLoc(c, [NoLocals EXCEPT !.message = Head(frames[c])])
  /\ frames' = [frames EXCEPT ![c] = Tail(@)]
  /\ nmsgs' = [nmsgs EXCEPT ![c] = @ + 1]
  /\ trace' = [trace EXCEPT ![c] = <<>>]
  /\ Goto(c, "hm_parse")
  /\ running' = c
  /\ UNCHANGED <<session_id, ws_open, close_code, active_connections, chat_sessions,
                 Store, clock, faults>>

\* main.py 68-70: receive_text raises WebSocketDisconnect.
ReceiveDisconnect(c) ==
  /\ Turn(c) /\ pc[c] = "receive"
  /\ ~ws_open[c]
  /\ SetLoc(c, NoLocals)
  /\ trace' = [trace EXCEPT ![c] = <<>>]
  /\ Goto(c, "disconnect")
  /\ running' = c
  /\ UNCHANGED <<Env, active_connections, chat_sessions, Store, clock, faults, nmsgs>>

\* main.py 72-74: receive_text raises something else (a binary frame has no "text").
ReceiveError(c) ==
  /\ Turn(c) /\ pc[c] = "receive"
  /\ ws_open[c]
  /\ SetLoc(c, NoLocals)
  /\ trace' = [trace EXCEPT ![c] = <<>>]
  /\ Goto(c, "disconnect")
  /\ running' = c
  /\ UNCHANGED <<Env, active_connections, chat_sessions, Store, clock, faults, nmsgs>>

(* ------------------- ConnectionManager.handle_message ----------------- *)
\* The last send of an operation: the coroutine then awaits receive_text.
SendLast(c, type, content, fn) ==
  /\ Emit(c, SendEffect(session_id[c], type, content, fn))
  /\ running' = 0
  /\ Goto(c, "receive")

\* websocket.py 105-111
ParseMessage(c) ==
  /\ Turn(c) /\ pc[c] = "hm_parse"
  /\ running' = c
  /\ LET text == MessageText(loc[c].message)
     IN  IF text = Null
         THEN /\ SetLoc(c, [loc[c] EXCEPT !.exc = NoGetAttr])
              /\ Goto(c, "hm_error")
         ELSE /\ SetLoc(c, [loc[c] EXCEPT !.message_text = text])
              /\ Goto(c, "hm_log")
  /\ UNCHANGED <<Env, active_connections, chat_sessions, Store, clock, faults, nmsgs, trace>>

\* websocket.py 114-118
LogUserMessage(c) ==
  /\ Turn(c) /\ pc[c] = "hm_log"
  /\ running' = c
  /\ LogEvent(c, "user_message", loc[c].message_text, <<>>, "hm_dispatch", "hm_error")
  /\ UNCHANGED <<Env, active_connections, chat_sessions, session_metadata, nmsgs>>

\* websocket.py 121-126
Dispatch(c) ==
  /\ Turn(c) /\ pc[c] = "hm_dispatch"
  /\ running' = c
  /\ IF IsCommand(loc[c].message_text)
     THEN /\ Goto(c, "fc_parse")
          /\ UNCHANGED loc
     ELSE /\ Goto(c, "typing_true")
          /\ SetLoc(c, [loc[c] EXCEPT !.user_message = loc[c].message_text])
  /\ UNCHANGED <<Env, active_connections, chat_sessions, Store, clock, faults, nmsgs, trace>>

SendHandleErrorRaise(c) ==
  /\ Turn(c) /\ pc[c] = "hm_error"
  /\ Emit(c, SendEffect(session_id[c], "error", "Error processing message: " \o loc[c].exc,
                        Null))
  /\ running' = c
  /\ Goto(c, IF SentTo(session_id[c]) # 0 /\ ws_open[SentTo(session_id[c])] THEN "receive"
             ELSE "disconnect")
  /\ UNCHANGED <<Env, active_connections, chat_sessions, Store, clock, faults, nmsgs, loc>>

\* websocket.py 128-133
SendHandleError(c) ==
  /\ Turn(c) /\ pc[c] = "hm_error"
  /\ SendLast(c, "error", "Error processing message: " \o loc[c].exc, Null)
  /\ UNCHANGED <<Env, active_connections, chat_sessions, Store, clock, faults, nmsgs, loc>>

(* ---------------- ConnectionManager.handle_function_call -------------- *)
ParseFunctionCallDefaulting(c) ==
  /\ Turn(c) /\ pc[c] = "fc_parse"
  /\ running' = c
  /\ LET parts == Split2(loc[c].message_text)
         parsed == IF Len(parts) > 2 THEN JsonParams(parts[3]) ELSE "{}"
         parameters == IF parsed = Null THEN "{}" ELSE parsed
     IN  IF Len(parts) < 2
         THEN /\ Goto(c, "fc_usage")
              /\ UNCHANGED loc
         ELSE /\ SetLoc(c, [loc[c] EXCEPT !.function_name = parts[2],
                                          !.parameters = parameters])
              /\ Goto(c, "fc_log")
  /\ UNCHANGED <<Env, active_connections, chat_sessions, Store, clock, faults, nmsgs, trace>>

\* websocket.py 187-200
ParseFunctionCall(c) ==
  /\ Turn(c) /\ pc[c] = "fc_parse"
  /\ running' = c
  /\ LET parts == Split2(loc[c].message_text)
         parameters == IF Len(parts) > 2 THEN JsonParams(parts[3]) ELSE "{}"
     IN  IF Len(parts) < 2
         THEN /\ Goto(c, "fc_usage")
              /\ UNCHANGED loc
         ELSE IF parameters = Null
         THEN /\ SetLoc(c, [loc[c] EXCEPT !.function_name = parts[2], !.exc = BadJson])
              /\ Goto(c, "fc_error")
         ELSE /\ SetLoc(c, [loc[c] EXCEPT !.function_name = parts[2],
                                          !.parameters = parameters])
              /\ Goto(c, "fc_log")
  /\ UNCHANGED <<Env, active_connections, chat_sessions, Store, clock, faults, nmsgs, trace>>

Usage ==
  "Usage: /function <function_name> [parameters]\nAvailable functions: " \o
  "get_weather, get_user_info, search_database"

SendUsageAndStream(c) ==
  /\ Turn(c) /\ pc[c] = "fc_usage"
  /\ SendMessage(c, "system", Usage, Null)
  /\ SetLoc(c, [loc[c] EXCEPT !.user_message = loc[c].message_text])
  /\ Goto(c, "typing_true")
  /\ UNCHANGED <<Env, active_connections, chat_sessions, Store, clock, faults, nmsgs>>

\* websocket.py 189-197
SendUsage(c) ==
  /\ Turn(c) /\ pc[c] = "fc_usage"
  /\ SendLast(c, "system", Usage, Null)
  /\ UNCHANGED <<Env, active_connections, chat_sessions, Store, clock, faults, nmsgs, loc>>

\* websocket.py 203-208
LogFunctionCall(c) ==
  /\ Turn(c) /\ pc[c] = "fc_log"
  /\ running' = c
  /\ LogEvent(c, "function_call", "Calling function: " \o loc[c].function_name,
              [function |-> loc[c].function_name, parameters |-> loc[c].parameters],
              "fc_result", "fc_error")
  /\ UNCHANGED <<Env, active_connections, chat_sessions, session_metadata, nmsgs>>

\* websocket.py 224: context_message
ContextMessage(function_name, result) ==
  "Function " \o function_name \o " returned: " \o result

SendFunctionResultViaHandler(c) ==
  /\ Turn(c) /\ pc[c] = "fc_result"
  /\ LET result == SimulateFunctionCall(loc[c].function_name, loc[c].parameters)
         data == SimulateFunctionData(loc[c].function_name, loc[c].parameters)
     IN  /\ SendMessage(c, "function_result", [result |-> result, data |-> data],
                        loc[c].function_name)
         /\ SetLoc(c, [loc[c] EXCEPT
                         !.result = result,
                         !.message_text = ContextMessage(loc[c].function_name, result)])
  /\ Goto(c, "hm_log")
  /\ UNCHANGED <<Env, active_connections, chat_sessions, Store, clock, faults, nmsgs>>

\* websocket.py 211-225: the result is sent, and the synthesized text goes to
\* stream_llm_response.
SendFunctionResult(c) ==
  /\ Turn(c) /\ pc[c] = "fc_result"
  /\ LET result == SimulateFunctionCall(loc[c].function_name, loc[c].parameters)
         data == SimulateFunctionData(loc[c].function_name, loc[c].parameters)
     IN  /\ SendMessage(c, "function_result", [result |-> result, data |-> data],
                        loc[c].function_name)
         /\ SetLoc(c, [loc[c] EXCEPT
                         !.result = result,
                         !.user_message = ContextMessage(loc[c].function_name, result)])
  /\ Goto(c, "typing_true")
  /\ UNCHANGED <<Env, active_connections, chat_sessions, Store, clock, faults, nmsgs>>

\* websocket.py 227-232
SendFunctionError(c) ==
  /\ Turn(c) /\ pc[c] = "fc_error"
  /\ SendLast(c, "error", "Function call failed: " \o loc[c].exc, Null)
  /\ UNCHANGED <<Env, active_connections, chat_sessions, Store, clock, faults, nmsgs, loc>>

(* ---- ConnectionManager.stream_llm_response, LLMService.stream_response *)
\* websocket.py 143-147
SendTypingTrue(c) ==
  /\ Turn(c) /\ pc[c] = "typing_true"
  /\ SendMessage(c, "typing", "true", Null)
  /\ SetLoc(c, [loc[c] EXCEPT !.full_response = ""])
  /\ Goto(c, "sr_start")
  /\ UNCHANGED <<Env, active_connections, chat_sessions, Store, clock, faults, nmsgs>>

\* LLMService.get_or_create_chat: the history list of the session; a list is named
\* by the coroutine and frame that created it, since clear_session may drop it from
\* chat_sessions while a generator still holds it.
GetOrCreateChat(c) ==
  IF session_id[c] \in DOMAIN chat_sessions THEN chat_sessions
  ELSE [s \in DOMAIN chat_sessions \cup {session_id[c]} |->
          IF s = session_id[c] THEN [id |-> <<c, nmsgs[c]>>, turns |-> <<>>]
          ELSE chat_sessions[s]]

Turn_(role, content) == [role |-> role, content |-> content]

\* history.append(...) on the list `hist`, which chat_sessions may no longer hold.
HistoryAppend(sessions, sid, hist, turn) ==
  IF sid \in DOMAIN sessions /\ sessions[sid].id = hist
  THEN [sessions EXCEPT ![sid].turns = Append(@, turn)]
  ELSE sessions

\* The name of a history list that get_full_response creates: one that neither
\* chat_sessions nor a generator holds.
FreshHistory ==
  LET used == {chat_sessions[s].id : s \in DOMAIN chat_sessions}
                \cup {loc[d].hist[1] : d \in {e \in Conns : loc[e].hist # None}}
  IN  <<0, CHOOSE k \in 0..Cardinality(used) : <<0, k>> \notin used>>

\* get_or_create_chat(session_id, system_prompt): a new history starts with the
\* system prompt when one is given and is not empty.
GetOrCreateChatWithPrompt(sid, system_prompt) ==
  IF sid \in DOMAIN chat_sessions THEN chat_sessions
  ELSE [s \in DOMAIN chat_sessions \cup {sid} |->
          IF s = sid
          THEN [id |-> FreshHistory,
                turns |-> IF system_prompt \in {None, Some("")} THEN <<>>
                          ELSE <<Turn_("system", system_prompt[1])>>]
          ELSE chat_sessions[s]]

\* What get_full_response returns (llm.py 131-135).
FullResponse(ok, assistant_message) ==
  IF ok THEN assistant_message ELSE "Error: " \o LlmDown

\* LLMService.get_full_response (llm.py 93-135): a completion without streaming.
\* The coroutine has no suspension point.  The user turn is appended before the
\* request; when the request raises, the turn stays and no assistant turn follows.
\* No code of the server calls this coroutine: it is a step of SpecLibrary only,
\* for a caller that holds the LLMService.
GetFullResponse(sid, user_message, system_prompt, ok, assistant_message) ==
  /\ running = 0
  /\ sid \in DOMAIN chat_sessions => Len(chat_sessions[sid].turns) <= 2 * MaxMsgs
  /\ LET created == GetOrCreateChatWithPrompt(sid, system_prompt)
         hist == created[sid].id
         asked == HistoryAppend(created, sid, hist, Turn_("user", user_message))
     IN  \/ /\ ok
            /\ chat_sessions' = HistoryAppend(asked, sid, hist,
                                              Turn_("assistant", assistant_message))
            /\ UNCHANGED faults
         \/ /\ ~ok
            /\ CanFail
            /\ faults' = faults + 1
            /\ chat_sessions' = asked
  /\ UNCHANGED <<Env, pc, running, active_connections, Store, clock, nmsgs, loc, trace>>

\* llm.py 58-74, 89-91: the first step of the generator.  The request succeeds, or
\* raises, and then the generator yields the error text as its only fragment.
StartStream(c) ==
  /\ Turn(c) /\ pc[c] = "sr_start"
  /\ running' = c
  /\ LET created == GetOrCreateChat(c)
         hist == created[session_id[c]].id
     IN  /\ chat_sessions' =
              HistoryAppend(created, session_id[c], hist, Turn_("user", loc[c].user_message))
         /\ \/ /\ SetLoc(c, [loc[c] EXCEPT !.hist = Some(hist), !.gen_full = ""])
               /\ Emit(c, Effect("completion", "request", loc[c].user_message, Null, 0, TRUE))
               /\ Goto(c, "sr_next")
               /\ UNCHANGED faults
            \/ /\ CanFail
               /\ faults' = faults + 1
               /\ SetLoc(c, [loc[c] EXCEPT !.hist = Some(hist), !.chunk = "Error: " \o LlmDown,
                                           !.gen_over = TRUE, !.exc = LlmDown])
               /\ Emit(c, Effect("completion", "request", loc[c].user_message, Null, 0, FALSE))
               /\ Goto(c, "chunk")
  /\ UNCHANGED <<Env, active_connections, Store, clock, nmsgs>>

\* llm.py 76-91: the generator runs to its next yield or to its end.
NextFragment(c) ==
  /\ Turn(c) /\ pc[c] = "sr_next"
  /\ running' = c
  /\ \/ \E content \in Frags(loc[c].nfrag + 1) :
          /\ loc[c].nfrag < MaxFrags
          /\ IF content # ""
             THEN /\ SetLoc(c, [loc[c] EXCEPT !.nfrag = @ + 1, !.chunk = content,
                                              !.gen_full = @ \o content])
                  /\ Emit(c, Effect("completion", "fragment", content, Null, 0, TRUE))
                  /\ Goto(c, "chunk")
             ELSE /\ SetLoc(c, [loc[c] EXCEPT !.nfrag = @ + 1])
                  /\ Emit(c, Effect("completion", "fragment", content, Null, 0, TRUE))
                  /\ UNCHANGED pc
          /\ UNCHANGED <<faults, chat_sessions>>
     \/ /\ chat_sessions' = HistoryAppend(chat_sessions, session_id[c], loc[c].hist[1],
                                          Turn_("assistant", loc[c].gen_full))
        /\ SetLoc(c, [loc[c] EXCEPT !.gen_over = TRUE])
        /\ Emit(c, Effect("completion", "end", loc[c].gen_full, Null, 0, TRUE))
        /\ Goto(c, "typing_false")
        /\ UNCHANGED faults
     \/ /\ CanFail
        /\ faults' = faults + 1
        /\ SetLoc(c, [loc[c] EXCEPT !.chunk = "Error: " \o LlmDown, !.gen_over = TRUE,
                                    !.exc = LlmDown])
        /\ Emit(c, Effect("completion", "fragment", Null, Null, 0, FALSE))
        /\ Goto(c, "chunk")
        /\ UNCHANGED chat_sessions
  /\ UNCHANGED <<Env, active_connections, Store, clock, nmsgs>>

AccumulateLast(full_response, chunk) == chunk

\* websocket.py 151: full_response += chunk
Accumulate(full_response, chunk) == full_response \o chunk

AfterChunkRaise(gen_over) == IF gen_over THEN "stream_error" ELSE "sr_next"

\* websocket.py 150, 160: the loop asks the generator for its next fragment, and
\* leaves to line 160 once the generator is over.
AfterChunk(gen_over) == IF gen_over THEN "typing_false" ELSE "sr_next"

SendChunkOrGiveUp(c) ==
  /\ Turn(c) /\ pc[c] = "chunk"
  /\ SendMessage(c, "ai_response_chunk", loc[c].chunk, Null)
  /\ SetLoc(c, [loc[c] EXCEPT !.full_response = Accumulate(@, loc[c].chunk)])
  /\ Goto(c, IF SendEffect(session_id[c], "ai_response_chunk", loc[c].chunk, Null).ok
             THEN AfterChunk(loc[c].gen_over) ELSE "receive")
  /\ UNCHANGED <<Env, active_connections, chat_sessions, Store, clock, faults, nmsgs>>

\* websocket.py 150-157
SendChunk(c) ==
  /\ Turn(c) /\ pc[c] = "chunk"
  /\ SendMessage(c, "ai_response_chunk", loc[c].chunk, Null)
  /\ SetLoc(c, [loc[c] EXCEPT !.full_response = Accumulate(@, loc[c].chunk)])
  /\ Goto(c, AfterChunk(loc[c].gen_over))
  /\ UNCHANGED <<Env, active_connections, chat_sessions, Store, clock, faults, nmsgs>>

\* websocket.py 160
SendTypingFalse(c) ==
  /\ Turn(c) /\ pc[c] = "typing_false"
  /\ SendMessage(c, "typing", "false", Null)
  /\ Goto(c, "complete")
  /\ UNCHANGED <<Env, active_connections, chat_sessions, Store, clock, faults, nmsgs, loc>>

SendCompleteLast(c) ==
  /\ Turn(c) /\ pc[c] = "complete"
  /\ SendLast(c, "ai_response_complete", "true", Null)
  /\ UNCHANGED <<Env, active_connections, chat_sessions, Store, clock, faults, nmsgs, loc>>

\* websocket.py 161
SendComplete(c) ==
  /\ Turn(c) /\ pc[c] = "complete"
  /\ SendMessage(c, "ai_response_complete", "true", Null)
  /\ Goto(c, "log_ai")
  /\ UNCHANGED <<Env, active_connections, chat_sessions, Store, clock, faults, nmsgs, loc>>

\* websocket.py 164-168
LogAiResponse(c) ==
  /\ Turn(c) /\ pc[c] = "log_ai"
  /\ LogEvent(c, "ai_response", loc[c].full_response, <<>>, "receive", "stream_error")
  /\ running' = IF pc'[c] = "receive" THEN 0 ELSE c
  /\ UNCHANGED <<Env, active_connections, chat_sessions, session_metadata, nmsgs>>

\* websocket.py 170-175
SendStreamError(c) ==
  /\ Turn(c) /\ pc[c] = "stream_error"
  /\ SendLast(c, "error", "Error generating response: " \o loc[c].exc, Null)
  /\ UNCHANGED <<Env, active_connections, chat_sessions, Store, clock, faults, nmsgs, loc>>

(* ---- ConnectionManager.disconnect, PostSessionProcessor.process_session *)
\* How the store renders start_time in the row get_session returns.
StartFormats == {"naive", "utc", "z", "bad", "missing"}

\* processor.py 45-51, 71-79: the parsed start_time (the offset of "utc" and "z" is
\* zero), with the fallback to end_time on KeyError and ValueError.
ParseStart(fmt, start_time, end_time) ==
  IF fmt \in {"bad", "missing"} THEN end_time ELSE start_time

\* processor.py 53, 81: int((end_time - start_time).total_seconds()), which
\* truncates towards zero.
DurationSeconds(end_time, start_time) ==
  LET d == end_time - start_time
  IN  IF d >= 0 THEN d \div TicksPerSec ELSE -((-d) \div TicksPerSec)

\* llm.py 149-159: the transcript analyze_conversation puts in its prompt.
RECURSIVE TranscriptLines(_)
TranscriptLines(events) ==
  IF events = <<>> THEN ""
  ELSE LET e == Head(events)
           line == CASE e.event_type = "user_message" -> "User: " \o e.content \o "\n"
                     [] e.event_type = "ai_response" -> "AI: " \o e.content \o "\n"
                     [] e.event_type = "function_call" ->
                          "[Function Call: " \o e.content \o "]\n"
                     [] OTHER -> ""
       IN  line \o TranscriptLines(Tail(events))

Transcript(events) == "Conversation History:\n\n" \o TranscriptLines(events)

\* What the Completion Engine answers to a summary request.
Summaries == {"The user greeted the assistant."}

NoConversation == "No conversation occurred in this session."

DisconnectKeepHandle(c) ==
  /\ Turn(c) /\ pc[c] = "disconnect"
  /\ running' = c
  /\ Emit(c, Effect("registry", "remove", Null, Null, 0, FALSE))
  /\ Goto(c, "ps_get")
  /\ UNCHANGED <<Env, active_connections, chat_sessions, Store, clock, faults, nmsgs, loc>>

DisconnectAll(c) ==
  /\ Turn(c) /\ pc[c] = "disconnect"
  /\ running' = c
  /\ active_connections' = <<>>
  /\ Emit(c, Effect("registry", "remove", Null, Null, 0,
                    session_id[c] \in DOMAIN active_connections))
  /\ Goto(c, "ps_get")
  /\ UNCHANGED <<Env, chat_sessions, Store, clock, faults, nmsgs, loc>>

\* websocket.py 68-69
Disconnect(c) ==
  /\ Turn(c) /\ pc[c] = "disconnect"
  /\ running' = c
  /\ active_connections' =
       [s \in DOMAIN active_connections \ {session_id[c]} |-> active_connections[s]]
  /\ Emit(c, Effect("registry", "remove", Null, Null, 0,
                    session_id[c] \in DOMAIN active_connections))
  /\ Goto(c, "ps_get")
  /\ UNCHANGED <<Env, chat_sessions, Store, clock, faults, nmsgs, loc>>

GetSessionUnchecked(c) ==
  /\ Turn(c) /\ pc[c] = "ps_get"
  /\ running' = c
  /\ \/ /\ session_id[c] \in DOMAIN session_metadata
        /\ SetLoc(c, [loc[c] EXCEPT !.session = Some(session_metadata[session_id[c]])])
        /\ Emit(c, Effect("get_session", "found", Null, Null, 0, TRUE))
        /\ Goto(c, "ps_events")
        /\ UNCHANGED faults
     \/ /\ session_id[c] \notin DOMAIN session_metadata
        /\ Emit(c, Effect("get_session", "absent", Null, Null, 0, TRUE))
        /\ Goto(c, "ps_events")
        /\ UNCHANGED <<faults, loc>>
     \/ /\ CanFail
        /\ faults' = faults + 1
        /\ SetLoc(c, [loc[c] EXCEPT !.exc = StoreDown])
        /\ Emit(c, Effect("get_session", Null, Null, Null, 0, FALSE))
        /\ Goto(c, "ps_fallback")
  /\ UNCHANGED <<Env, active_connections, chat_sessions, Store, clock, nmsgs>>

\* processor.py 32-35
GetSession(c) ==
  /\ Turn(c) /\ pc[c] = "ps_get"
  /\ running' = c
  /\ \/ /\ session_id[c] \in DOMAIN session_metadata
        /\ SetLoc(c, [loc[c] EXCEPT !.session = Some(session_metadata[session_id[c]])])
        /\ Emit(c, Effect("get_session", "found", Null, Null, 0, TRUE))
        /\ Goto(c, "ps_events")
        /\ UNCHANGED faults
     \/ /\ session_id[c] \notin DOMAIN session_metadata
        /\ Emit(c, Effect("get_session", "absent", Null, Null, 0, TRUE))
        /\ Goto(c, "clear")
        /\ UNCHANGED <<faults, loc>>
     \/ /\ CanFail
        /\ faults' = faults + 1
        /\ SetLoc(c, [loc[c] EXCEPT !.exc = StoreDown])
        /\ Emit(c, Effect("get_session", Null, Null, Null, 0, FALSE))
        /\ Goto(c, "ps_fallback")
  /\ UNCHANGED <<Env, active_connections, chat_sessions, Store, clock, nmsgs>>

\* processor.py 38-40
GetSessionEvents(c) ==
  /\ Turn(c) /\ pc[c] = "ps_events"
  /\ running' = c
  /\ \/ /\ SetLoc(c, [loc[c] EXCEPT !.events = SessionEvents(session_id[c])])
        /\ Emit(c, Effect("get_session_events", Null, Null, Null, 0, TRUE))
        /\ Goto(c, IF SessionEvents(session_id[c]) = <<>> THEN "ps_empty" ELSE "ps_summary")
        /\ UNCHANGED faults
     \/ /\ CanFail
        /\ faults' = faults + 1
        /\ SetLoc(c, [loc[c] EXCEPT !.exc = StoreDown])
        /\ Emit(c, Effect("get_session_events", Null, Null, Null, 0, FALSE))
        /\ Goto(c, "ps_fallback")
  /\ UNCHANGED <<Env, active_connections, chat_sessions, Store, clock, nmsgs>>

\* DatabaseService.update_session called by coroutine c, which goes to `next` when
\* the call returns and to `handler` when it raises; `spent` faults precede the call.
CallUpdateSession(c, end_time, duration_seconds, session_summary, next, handler, spent) ==
  \/ /\ session_metadata' =
          UpdateSession(session_id[c], end_time, duration_seconds, session_summary)
     /\ SetLoc(c, [loc[c] EXCEPT !.end_time = end_time,
                                 !.duration_seconds = duration_seconds,
                                 !.summary = session_summary])
     /\ Emit(c, Effect("update_session", session_summary, Null, Null, 0, TRUE))
     /\ Goto(c, next)
     /\ faults' = faults + spent
  \/ /\ faults + spent < MaxFaults
     /\ faults' = faults + spent + 1
     /\ SetLoc(c, [loc[c] EXCEPT !.end_time = end_time,
                                 !.duration_seconds = duration_seconds,
                                 !.summary = session_summary, !.exc = StoreDown])
     /\ Emit(c, Effect("update_session", session_summary, Null, Null, 0, FALSE))
     /\ Goto(c, handler)
     /\ UNCHANGED session_metadata

\* processor.py 41-61: no events, the session is closed with the fixed summary.
CloseEmptySession(c) ==
  /\ Turn(c) /\ pc[c] = "ps_empty"
  /\ running' = c
  /\ \E end_time \in -MaxBack..MaxAhead, fault \in BOOLEAN, fmt \in StartFormats :
       /\ UtcNow(end_time, fault)
       /\ LET session == loc[c].session[1]
              start_time == ParseStart(fmt, session.start_time, end_time)
          IN  CallUpdateSession(c, Some(end_time),
                                Some(DurationSeconds(end_time, start_time)),
                                NoConversation, "clear", "ps_fallback",
                                IF fault THEN 1 ELSE 0)
  /\ UNCHANGED <<Env, active_connections, chat_sessions, event_log, nmsgs>>

SummarizeEmptyOnFailure(c) ==
  /\ Turn(c) /\ pc[c] = "ps_summary"
  /\ running' = c
  /\ \/ /\ \E summary \in Summaries : SetLoc(c, [loc[c] EXCEPT !.summary = summary])
        /\ Emit(c, Effect("completion", "summary", Transcript(loc[c].events), Null, 0, TRUE))
        /\ UNCHANGED faults
     \/ /\ CanFail
        /\ faults' = faults + 1
        /\ SetLoc(c, [loc[c] EXCEPT !.summary = ""])
        /\ Emit(c, Effect("completion", "summary", Transcript(loc[c].events), Null, 0, FALSE))
  /\ Goto(c, "ps_update")
  /\ UNCHANGED <<Env, active_connections, chat_sessions, Store, clock, nmsgs>>

\* processor.py 65, llm.py 147-183: analyze_conversation returns the summary, or the
\* text of its own failure.
Summarize(c) ==
  /\ Turn(c) /\ pc[c] = "ps_summary"
  /\ running' = c
  /\ \/ /\ \E summary \in Summaries : SetLoc(c, [loc[c] EXCEPT !.summary = summary])
        /\ Emit(c, Effect("completion", "summary", Transcript(loc[c].events), Null, 0, TRUE))
        /\ UNCHANGED faults
     \/ /\ CanFail
        /\ faults' = faults + 1
        /\ SetLoc(c, [loc[c] EXCEPT !.summary = "Summary generation failed: " \o LlmDown])
        /\ Emit(c, Effect("completion", "summary", Transcript(loc[c].events), Null, 0, FALSE))
  /\ Goto(c, "ps_update")
  /\ UNCHANGED <<Env, active_connections, chat_sessions, Store, clock, nmsgs>>

\* processor.py 68-89
UpdateSummary(c) ==
  /\ Turn(c) /\ pc[c] = "ps_update"
  /\ running' = c
  /\ \E end_time \in -MaxBack..MaxAhead, fault \in BOOLEAN, fmt \in StartFormats :
       /\ UtcNow(end_time, fault)
       /\ LET session == loc[c].session[1]
              start_time == ParseStart(fmt, session.start_time, end_time)
          IN  CallUpdateSession(c, Some(end_time),
                                Some(DurationSeconds(end_time, start_time)),
                                loc[c].summary, "ps_log", "ps_fallback",
                                IF fault THEN 1 ELSE 0)
  /\ UNCHANGED <<Env, active_connections, chat_sessions, event_log, nmsgs>>

LogCompletionCountsItself(c) ==
  /\ Turn(c) /\ pc[c] = "ps_log"
  /\ running' = c
  /\ LogEvent(c, "system_event", "Session ended and summary generated",
              [duration_seconds |-> loc[c].duration_seconds[1],
               event_count |-> Len(loc[c].events) + 1],
              "clear", "ps_fallback")
  /\ UNCHANGED <<Env, active_connections, chat_sessions, session_metadata, nmsgs>>

\* processor.py 92-100
LogCompletion(c) ==
  /\ Turn(c) /\ pc[c] = "ps_log"
  /\ running' = c
  /\ LogEvent(c, "system_event", "Session ended and summary generated",
              [duration_seconds |-> loc[c].duration_seconds[1],
               event_count |-> Len(loc[c].events)],
              "clear", "ps_fallback")
  /\ UNCHANGED <<Env, active_connections, chat_sessions, session_metadata, nmsgs>>

\* processor.py 104-115: any exception of the main path; a failure here is swallowed.
\* The call that fails here follows a call that failed: it is the same outage, and
\* is not counted a second time.
FallbackUpdate(c) ==
  /\ Turn(c) /\ pc[c] = "ps_fallback"
  /\ running' = c
  /\ \E end_time \in -MaxBack..MaxAhead, fault \in BOOLEAN :
       /\ UtcNow(end_time, fault)
       /\ LET spent == IF fault THEN 1 ELSE 0
              summary == "Summary generation failed: " \o loc[c].exc
          IN  \/ /\ session_metadata' =
                      UpdateSession(session_id[c], Some(end_time), None, summary)
                 /\ Emit(c, Effect("update_session", summary, Null, Null, 0, TRUE))
                 /\ faults' = faults + spent
              \/ /\ faults' = faults + spent
                 /\ Emit(c, Effect("update_session", summary, Null, Null, 0, FALSE))
                 /\ UNCHANGED session_metadata
  /\ Goto(c, "clear")
  /\ UNCHANGED <<Env, active_connections, chat_sessions, event_log, nmsgs, loc>>

ClearSessionKeepHistory(c) ==
  /\ Turn(c) /\ pc[c] = "clear"
  /\ running' = 0
  /\ Emit(c, Effect("clear_session", Null, Null, Null, 0, FALSE))
  /\ Goto(c, "done")
  /\ SetLoc(c, NoLocals)
  /\ UNCHANGED <<Env, active_connections, chat_sessions, Store, clock, faults, nmsgs>>

\* websocket.py 78, llm.py 185-193; websocket_endpoint then returns.
ClearSession(c) ==
  /\ Turn(c) /\ pc[c] = "clear"
  /\ running' = 0
  /\ chat_sessions' = [s \in DOMAIN chat_sessions \ {session_id[c]} |-> chat_sessions[s]]
  /\ Emit(c, Effect("clear_session", Null, Null, Null, 0, TRUE))
  /\ Goto(c, "done")
  /\ SetLoc(c, NoLocals)
  /\ UNCHANGED <<Env, active_connections, Store, clock, faults, nmsgs>>

(* --------------------------- specification ---------------------------- *)
Next ==
  \E c \in Conns :
    \/ RejectInvalid(c) \/ AcceptValid(c) \/ Register(c) \/ CreateSession(c)
    \/ LogSessionStart(c) \/ SendWelcome(c) \/ SendConnectError(c)
    \/ ClientClose(c) \/ ReceiveText(c) \/ ReceiveDisconnect(c) \/ ReceiveError(c)
    \/ ParseMessage(c) \/ LogUserMessage(c) \/ Dispatch(c) \/ SendHandleError(c)
    \/ ParseFunctionCall(c) \/ SendUsage(c) \/ LogFunctionCall(c)
    \/ SendFunctionResult(c) \/ SendFunctionError(c)
    \/ SendTypingTrue(c) \/ StartStream(c) \/ NextFragment(c) \/ SendChunk(c)
    \/ SendTypingFalse(c) \/ SendComplete(c) \/ LogAiResponse(c) \/ SendStreamError(c)
    \/ Disconnect(c) \/ GetSession(c) \/ GetSessionEvents(c) \/ CloseEmptySession(c)
    \/ Summarize(c) \/ UpdateSummary(c) \/ LogCompletion(c) \/ FallbackUpdate(c)
    \/ ClearSession(c)

\* One client, with any identifier; the other connection attempts are refused.
Init ==
  /\ Start
  /\ \A c \in Conns \ {1} : session_id[c] = "bad"

Spec == Init /\ [][Next]_vars

\* disconnect and what it calls have no suspension point: once receive_text has
\* raised, the coroutine runs them to the end.
Teardown(c) ==
  \/ Disconnect(c) \/ GetSession(c) \/ GetSessionEvents(c) \/ CloseEmptySession(c)
  \/ Summarize(c) \/ UpdateSummary(c) \/ LogCompletion(c) \/ FallbackUpdate(c)
  \/ ClearSession(c)

SpecLive == Init /\ [][Next]_vars /\ \A c \in Conns : WF_vars(Teardown(c))

\* Two clients with well-formed identifiers, the same one or not; a function is
\* called only next to a client the server turns away.
InitPair ==
  /\ Start
  /\ \/ /\ session_id[1] \in {"u1", "badhex"}
        /\ session_id[2] \in {"u1", "u2"}
        /\ frames[1] \in {<<>>, <<"hi">>, <<"/function">>}
     \/ /\ session_id[1] = "u1"
        /\ session_id[2] = "badhex"
        /\ frames[1] = <<"/function get_weather">>
  /\ \A c \in Conns \ {1, 2} : session_id[c] = "bad"

SpecPair == InitPair /\ [][Next]_vars

\* One client that sends two frames, the first of which may fail to be handled.
Dialogues == {<<"[1]", "hi">>, <<"hi", "hi">>, <<"hi", "/function">>,
              <<"/function echo {bad", "/function get_weather">>,
              <<"/function get_weather", "hi">>}

InitTwo ==
  /\ session_id \in [Conns -> Ids]
  /\ session_id[1] = "u1"
  /\ \A c \in Conns \ {1} : session_id[c] = "bad"
  /\ frames \in [Conns -> Dialogues \cup {<<>>}]
  /\ frames[1] \in Dialogues
  /\ \A c \in Conns \ {1} : frames[c] = <<>>
  /\ pc = [c \in Conns |-> "start"]
  /\ running = 0
  /\ ws_open = [c \in Conns |-> TRUE]
  /\ close_code = [c \in Conns |-> 0]
  /\ active_connections = <<>>
  /\ chat_sessions = <<>>
  /\ session_metadata = <<>>
  /\ event_log = <<>>
  /\ clock = 0
  /\ faults = 0
  /\ nmsgs = [c \in Conns |-> 0]
  /\ loc = [c \in Conns |-> NoLocals]
  /\ trace = [c \in Conns |-> <<>>]

SpecTwo == InitTwo /\ [][Next]_vars

\* The server next to a caller of get_full_response.
NextLibrary ==
  \/ Next
  \/ \E sid \in {"u1", "u2"}, system_prompt \in {None, Some(""), Some("Be brief.")},
        ok \in BOOLEAN :
       GetFullResponse(sid, "hi", system_prompt, ok, "ab")

SpecLibrary == Init /\ [][NextLibrary]_vars

(* ------------------------- reading the state -------------------------- *)
\* The identifiers of Ids that are no well-formed UUID.
Malformed == {id \in Ids : ~WellFormed(IdText(id))}

\* The identifiers of Ids that websocket_endpoint turns away.
Refused == {id \in Ids : ~UUID(IdText(id))}

RECURSIVE Concat(_)
Concat(strings) == IF strings = <<>> THEN "" ELSE Head(strings) \o Concat(Tail(strings))

Contents(effects) == [i \in 1..Len(effects) |-> effects[i].content]

\* The frames coroutine c handed to send_message in its current operation, and
\* those of them that reached a client.
Sends(c, type) == SelectSeq(trace[c], LAMBDA e : e.k = "send" /\ e.type = type)
Delivered(c, type) == SelectSeq(Sends(c, type), LAMBDA e : e.ok)

\* Every frame of the current operation of c reached a client.
Live(c) == \A i \in 1..Len(trace[c]) : trace[c][i].k = "send" => trace[c][i].ok

\* The events coroutine c wrote in its current operation.
Logged(c, event_type) ==
  SelectSeq(trace[c], LAMBDA e : e.k = "log" /\ e.type = event_type /\ e.ok)

\* The requests to the Completion Engine that failed, outright or in mid-stream.
FailedCompletions(c) ==
  SelectSeq(trace[c], LAMBDA e : e.k = "completion" /\ e.type \in {"request", "fragment"}
                                 /\ ~e.ok)

\* Coroutine c has run a chat turn to its end and awaits the next frame.
TurnOver(c) == pc[c] = "receive" /\ Sends(c, "typing") # <<>>

\* connect has returned for connection c.
Connected(c) == pc[c] \notin {"start", "rejected", "accept", "create_session",
                              "log_start", "welcome", "connect_error"}

EventsOf(sid, event_type) ==
  {i \in 1..Len(event_log) : event_log[i].session_id = sid
                             /\ event_log[i].event_type = event_type}

StartEvents(sid) ==
  {i \in EventsOf(sid, "system_event") : event_log[i].content = "Session started"}

CompletionEvents(sid) ==
  {i \in EventsOf(sid, "system_event") :
     event_log[i].content = "Session ended and summary generated"}

(* ------------------------------ claims -------------------------------- *)
\* C1: once connect has run for a well-formed identifier, the event log holds
\* exactly one "Session started" system_event of that session, and it precedes
\* every user_message event of the session.
C1_OneStartEventFirst ==
  \A c \in Conns :
    Connected(c) =>
      /\ Cardinality(StartEvents(session_id[c])) = 1
      /\ \A i \in StartEvents(session_id[c]), j \in EventsOf(session_id[c], "user_message") :
           i < j

\* C2: an event is written only for a session_id whose Session row exists at
\* that moment; none is written for a session whose create_session failed.
C2_EventsReferenceSession ==
  [][\A i \in 1..Len(event_log') :
        i > Len(event_log) => event_log'[i].session_id \in DOMAIN session_metadata]_vars

\* C2, its case: the client of a session whose row was never created sends a
\* frame, the write of its user_message is refused, and no event of it exists.
C2_Witness ==
  \E c \in Conns :
    /\ pc[c] = "hm_error" /\ loc[c].exc = ForeignKey
    /\ session_id[c] \notin DOMAIN session_metadata
    /\ \A i \in 1..Len(event_log) : event_log[i].session_id # session_id[c]

\* C3: in a chat turn that logs an ai_response event, the contents of the
\* ai_response_chunk messages relayed (handed to send_message) during the turn
\* concatenate, in relay order, to the content of that event; so do the chunks
\* that reached the client when every one did; the turn logs one such event at most.
C3_SentEqualsLogged ==
  \A c \in Conns :
    Logged(c, "ai_response") # <<>> =>
      /\ Len(Logged(c, "ai_response")) = 1
      /\ Concat(Contents(Sends(c, "ai_response_chunk")))
           = Logged(c, "ai_response")[1].content
      /\ Delivered(c, "ai_response_chunk") = Sends(c, "ai_response_chunk") =>
           Concat(Contents(Delivered(c, "ai_response_chunk")))
             = Logged(c, "ai_response")[1].content

\* C3, its case: a turn relayed two fragments and logged their concatenation.
C3_Witness ==
  \E c \in Conns :
    /\ Len(Delivered(c, "ai_response_chunk")) = 2
    /\ Len(Logged(c, "ai_response")) = 1
    /\ Logged(c, "ai_response")[1].content = "ab"

\* C4: a chat turn on a live connection sends typing=true once and then
\* typing=false once, whether the completion call succeeds, fails before its
\* first fragment or in mid-stream, or the write of the ai_response fails.
C4_TypingOnThenOff ==
  \A c \in Conns :
    /\ Live(c) => \/ Contents(Sends(c, "typing")) = <<>>
                  \/ Contents(Sends(c, "typing")) = <<"true">>
                  \/ Contents(Sends(c, "typing")) = <<"true", "false">>
    /\ TurnOver(c) /\ Live(c) => Contents(Delivered(c, "typing")) = <<"true", "false">>

\* C4, its case: the completion call failed in mid-stream, after a fragment, on a
\* live connection, and the turn is over.
C4_Witness ==
  \E c \in Conns :
    /\ TurnOver(c) /\ Live(c)
    /\ FailedCompletions(c) # <<>>
    /\ Len(Sends(c, "ai_response_chunk")) = 2
    /\ Contents(Delivered(c, "typing")) = <<"true", "false">>

\* C5: when the completion call fails, outright or in mid-stream, the client gets
\* one error frame with the failure description, after typing=false; the failure
\* text is not relayed as a chunk, no ai_response_complete is sent and no
\* ai_response event is logged for the turn.
C5_FailureReportedAsError ==
  \A c \in Conns :
    TurnOver(c) /\ Live(c) /\ FailedCompletions(c) # <<>> =>
      /\ Len(Sends(c, "error")) = 1
      /\ Sends(c, "error")[1].content = "Error generating response: " \o LlmDown
      /\ \E i, j \in 1..Len(trace[c]) :
           /\ i < j
           /\ trace[c][i].k = "send" /\ trace[c][i].type = "typing"
           /\ trace[c][i].content = "false"
           /\ trace[c][j].k = "send" /\ trace[c][j].type = "error"
      /\ \A i \in 1..Len(Sends(c, "ai_response_chunk")) :
           Sends(c, "ai_response_chunk")[i].content # "Error: " \o LlmDown
      /\ Sends(c, "ai_response_complete") = <<>>
      /\ Logged(c, "ai_response") = <<>>

\* C6: teardown is idempotent: when process_session runs twice for a session with
\* a non-empty transcript, no two completion system_events of the session carry
\* different duration_seconds, and the run that finds end_time already set issues
\* no update_session and logs no completion event.
C6_TeardownIdempotent ==
  /\ \A s \in DOMAIN session_metadata : \A i, j \in CompletionEvents(s) :
       event_log[i].metadata.duration_seconds = event_log[j].metadata.duration_seconds
  /\ \A c \in Conns :
       /\ loc[c].session # None
       /\ loc[c].session[1].end_time # None
       /\ loc[c].events # <<>>
       => \A i \in 1..Len(trace[c]) :
            /\ trace[c][i].k # "update_session"
            /\ ~(trace[c][i].k = "log" /\ trace[c][i].type = "system_event")

\* C7: the end_time and the summary of a session row are written once: no
\* update_session changes an end_time or a summary that an earlier call has set,
\* also when a step of teardown fails part-way.
C7_WrittenOnce ==
  [][\A s \in DOMAIN session_metadata :
       /\ session_metadata[s].end_time # None =>
            session_metadata'[s].end_time = session_metadata[s].end_time
       /\ session_metadata[s].session_summary # Null =>
            session_metadata'[s].session_summary = session_metadata[s].session_summary]_vars

\* C8: the duration_seconds process_session writes is never negative, whatever
\* the clock reads at teardown and whatever the form of start_time, on the path
\* of the empty transcript and on the other.
C8_DurationNonNegative ==
  /\ \A s \in DOMAIN session_metadata :
       session_metadata[s].duration_seconds # None =>
         session_metadata[s].duration_seconds[1] >= 0
  /\ \A i \in 1..Len(event_log) :
       i \in CompletionEvents(event_log[i].session_id) =>
         event_log[i].metadata.duration_seconds >= 0

\* C9: a session that connected successfully and whose client sent no frame has,
\* after a teardown in which no call failed, the fixed summary "No conversation
\* occurred in this session." and a duration_seconds that is not negative.
C9_NoConversationSummary ==
  \A c \in Conns :
    /\ pc[c] = "done" /\ nmsgs[c] = 0 /\ faults = 0
    /\ session_id[c] \in DOMAIN session_metadata
    /\ session_metadata[session_id[c]].user_id = UserId(c)
    /\ StartEvents(session_id[c]) # {}
    => /\ session_metadata[session_id[c]].session_summary = NoConversation
       /\ session_metadata[session_id[c]].duration_seconds # None
       /\ session_metadata[session_id[c]].duration_seconds[1] >= 0

\* C10: a connection attempt whose identifier is no well-formed UUID is closed
\* with code 1008 and nothing else happens: connect does not run, the registry,
\* the session rows, the chat histories and the event log stay without the
\* identifier, no frame is handled and no teardown runs.
C10_MalformedRejected ==
  \A c \in Conns :
    session_id[c] \in Malformed =>
      /\ pc[c] \in {"start", "rejected"}
      /\ pc[c] = "rejected" => close_code[c] = 1008 /\ ~ws_open[c]
      /\ pc[c] = "start" => close_code[c] = 0
      /\ session_id[c] \notin DOMAIN active_connections
      /\ session_id[c] \notin DOMAIN session_metadata
      /\ session_id[c] \notin DOMAIN chat_sessions
      /\ \A i \in 1..Len(event_log) : event_log[i].session_id # session_id[c]
      /\ trace[c] = <<>> /\ nmsgs[c] = 0 /\ loc[c] = NoLocals

(* ----------------- reading one handled frame ----------------- *)
\* The positions in the record of coroutine c's current operation of an effect
\* of kind k and type `type`.
At(c, k, type) == {i \in 1..Len(trace[c]) : trace[c][i].k = k /\ trace[c][i].type = type}

\* The positions of the events coroutine c wrote in its current operation.
LoggedAt(c, event_type) == {i \in At(c, "log", event_type) : trace[c][i].ok}

\* handle_message has returned for the frame coroutine c took last.
Handled(c) == pc[c] = "receive" /\ loc[c].message # Null

\* connect created the session row of c and logged its start.
ConnectedOk(c) ==
  /\ session_id[c] \in DOMAIN session_metadata
  /\ session_metadata[session_id[c]].user_id = UserId(c)
  /\ StartEvents(session_id[c]) # {}

\* C11: in a successfully connected session, with no call failing, a plain text
\* frame yields one user_message event with that text, then one ai_response
\* event, and at least one ai_response_chunk is sent before ai_response_complete,
\* also when the stream of the Completion Engine has no fragment with text.
C11_PlainTurn ==
  \A c \in Conns :
    /\ Handled(c) /\ ConnectedOk(c) /\ faults = 0
    /\ loc[c].message_text # Null /\ ~IsCommand(loc[c].message_text)
    => /\ Cardinality(LoggedAt(c, "user_message")) = 1
       /\ \A i \in LoggedAt(c, "user_message") : trace[c][i].content = loc[c].message_text
       /\ Cardinality(LoggedAt(c, "ai_response")) = 1
       /\ \A i \in LoggedAt(c, "user_message"), j \in LoggedAt(c, "ai_response") : i < j
       /\ \E i \in At(c, "send", "ai_response_chunk") :
            \A j \in At(c, "send", "ai_response_complete") : i < j

\* The frame coroutine c handled last is a function command with a function
\* name and with no parameters or parameters that are valid JSON.
WellFormedCommand(c) ==
  /\ loc[c].message_text # Null
  /\ IsCommand(loc[c].message_text)
  /\ LET parts == Split2(loc[c].message_text)
     IN  /\ Len(parts) >= 2
         /\ Len(parts) > 2 => JsonParams(parts[3]) # Null

\* No write of the current operation of c to the event log was refused.
StoreReachable(c) == \A i \in 1..Len(trace[c]) : trace[c][i].k = "log" => trace[c][i].ok

KnownFunctions == {"get_weather", "get_user_info", "search_database"}

\* C12: a function command with a name and absent or valid parameters, the store
\* being reachable, logs one function_call event, then sends one function_result
\* naming the function with a non-empty result, then runs one chat turn, which
\* logs an ai_response event after the function_call event; a name that is not
\* known does not fail and gets its parameters back as data.
C12_FunctionCommand ==
  \A c \in Conns :
    Handled(c) /\ WellFormedCommand(c) /\ StoreReachable(c) =>
      LET parts == Split2(loc[c].message_text)
          parameters == IF Len(parts) > 2 THEN JsonParams(parts[3]) ELSE "{}"
      IN  /\ Cardinality(LoggedAt(c, "function_call")) = 1
          /\ Cardinality(At(c, "send", "function_result")) = 1
          /\ \A i \in LoggedAt(c, "function_call"), j \in At(c, "send", "function_result") :
               /\ i < j
               /\ trace[c][j].fn = parts[2]
               /\ trace[c][j].content.result # ""
               /\ parts[2] \notin KnownFunctions => trace[c][j].content.data = parameters
          /\ Cardinality(At(c, "completion", "request")) = 1
          /\ Cardinality(At(c, "send", "typing")) = 2
          /\ \A i \in At(c, "send", "function_result"), j \in At(c, "completion", "request") :
               i < j
          /\ Cardinality(LoggedAt(c, "ai_response")) = 1
          /\ \A i \in LoggedAt(c, "function_call"), j \in LoggedAt(c, "ai_response") : i < j
          /\ At(c, "send", "error") = {}

\* C12, its case: the command of a function that is not known, with parameters,
\* was handled: the parameters came back as data and an ai_response was logged.
C12_Witness ==
  \E c \in Conns :
    /\ Handled(c) /\ WellFormedCommand(c) /\ StoreReachable(c)
    /\ Split2(loc[c].message_text)[2] = "echo"
    /\ \E j \in At(c, "send", "function_result") : trace[c][j].content.data = "{k: 1}"
    /\ LoggedAt(c, "ai_response") # {}

\* connect has returned for connection c and no frame was taken yet: the record
\* of c holds the effects of connect.
JustConnected(c) == pc[c] = "receive" /\ nmsgs[c] = 0

\* create_session and the write of the start event both succeeded in connect.
InitSucceeded(c) ==
  /\ \E i \in At(c, "create_session", Null) : trace[c][i].ok
  /\ LoggedAt(c, "system_event") # {}

\* C13: connect sends one of the welcome and the error frame: the welcome when
\* create_session and the write of the start event succeeded, the error frame
\* with the failure otherwise; either way it returns with the connection
\* accepted and registered, and the receive loop starts.
C13_WelcomeOrError ==
  \A c \in Conns :
    JustConnected(c) =>
      /\ Cardinality(At(c, "send", "system")) + Cardinality(At(c, "send", "error")) = 1
      /\ At(c, "send", "system") # {} <=> InitSucceeded(c)
      /\ \A i \in At(c, "send", "error") :
           /\ trace[c][i].content = "Session initialization failed: " \o loc[c].exc
           /\ trace[c][i].to = c
      /\ close_code[c] = 0
      /\ session_id[c] \in DOMAIN active_connections
      /\ active_connections[session_id[c]] = c

\* C13, its case: create_session succeeded and the write of the start event
\* failed; the client was sent the error frame and the loop awaits a frame.
C13_Witness ==
  \E c \in Conns :
    /\ JustConnected(c)
    /\ \E i \in At(c, "create_session", Null) : trace[c][i].ok
    /\ LoggedAt(c, "system_event") = {}
    /\ Cardinality(At(c, "send", "error")) = 1
    /\ At(c, "send", "system") = {}

\* The positions of a coroutine inside process_session, and those where an
\* exception is being handled.
SummarizerSteps == {"ps_get", "ps_events", "ps_empty", "ps_summary", "ps_update", "ps_log",
                    "ps_fallback"}
HandlerSteps == {"connect_error", "hm_error", "fc_error", "stream_error", "ps_fallback"}

\* C14: disconnect removes the handle from the registry before the summarizer
\* starts, and discards the conversation history only once the summarizer is
\* over; a send_message for a session that has no handle transmits nothing, does
\* not raise and leaves the registry as it is.
C14_DisconnectOrder ==
  [][\A c \in Conns :
       pc'[c] # pc[c] =>
         /\ pc[c] = "disconnect" =>
              /\ pc'[c] = "ps_get"
              /\ session_id[c] \notin DOMAIN active_connections'
              /\ chat_sessions' = chat_sessions /\ Store' = Store
         /\ pc[c] \in SummarizerSteps =>
              /\ pc'[c] \in SummarizerSteps \cup {"clear"}
              /\ session_id[c] \notin DOMAIN active_connections
              /\ active_connections' = active_connections
              /\ chat_sessions' = chat_sessions
         /\ pc[c] = "clear" =>
              /\ pc'[c] = "done"
              /\ session_id[c] \notin DOMAIN chat_sessions'
              /\ Store' = Store /\ active_connections' = active_connections
         /\ session_id[c] \in DOMAIN chat_sessions /\ session_id[c] \notin DOMAIN chat_sessions'
              => pc[c] = "clear"
         /\ /\ Len(trace'[c]) = Len(trace[c]) + 1
            /\ trace'[c][Len(trace'[c])].k = "send"
            /\ session_id[c] \notin DOMAIN active_connections
            => /\ trace'[c][Len(trace'[c])].to = 0
               /\ ~trace'[c][Len(trace'[c])].ok
               /\ active_connections' = active_connections
               /\ pc'[c] \notin HandlerSteps]_vars

\* C14, its case: a teardown is over, and a connection of the same session id,
\* still open, had a frame dropped by send_message for want of a handle.
C14_Witness ==
  \E c, d \in Conns :
    /\ c # d /\ session_id[c] = session_id[d]
    /\ pc[c] = "done" /\ ws_open[d]
    /\ \E i \in 1..Len(trace[d]) : trace[d][i].k = "send" /\ trace[d][i].to = 0

\* C15: in a successfully connected session, with no call failing, handle_message
\* logs one user_message event for every frame, be it raw text, a JSON object or
\* another JSON value, with the resolved content (the raw text, where the frame
\* is no envelope), and this write is the first effect of handling the frame.
C15_UserMessageFirst ==
  \A c \in Conns :
    Handled(c) /\ ConnectedOk(c) /\ faults = 0 =>
      /\ Cardinality(LoggedAt(c, "user_message")) = 1
      /\ trace[c] # <<>>
      /\ trace[c][1].k = "log" /\ trace[c][1].type = "user_message" /\ trace[c][1].ok
      /\ trace[c][1].content = IF MessageText(loc[c].message) = Null THEN loc[c].message
                               ELSE MessageText(loc[c].message)

\* The positions of a coroutine inside handle_message and what it calls.
HandlingSteps == {"hm_parse", "hm_log", "hm_dispatch", "hm_error", "fc_parse", "fc_usage",
                  "fc_log", "fc_result", "fc_error", "typing_true", "sr_start", "sr_next",
                  "chunk", "typing_false", "complete", "log_ai", "stream_error"}

\* An exception was raised in the handling of the frame coroutine c took last:
\* by the parsing of the frame or of the parameters, or by a write to the event log.
Raised(c) ==
  \/ MessageText(loc[c].message) = Null
  \/ \E i \in 1..Len(trace[c]) : trace[c][i].k = "log" /\ ~trace[c][i].ok
  \/ /\ IsCommand(loc[c].message_text)
     /\ Len(Split2(loc[c].message_text)) > 2
     /\ JsonParams(Split2(loc[c].message_text)[3]) = Null

\* C16: handle_message never lets an exception reach the receive loop: whatever
\* fails (event log, completion, send), each of its steps leads to another of its
\* steps or back to the loop awaiting the next frame, with the registry entry and
\* the connection as they were; an exception raised by parsing, logging or
\* dispatch yields one error frame.
C16_HandlerNeverRaises ==
  [][\A c \in Conns :
       /\ pc'[c] # pc[c] /\ pc[c] \in HandlingSteps =>
            /\ pc'[c] \in HandlingSteps \cup {"receive"}
            /\ active_connections' = active_connections
            /\ session_id[c] \in DOMAIN active_connections
            /\ close_code' = close_code
       /\ Handled(c) =>
            /\ Raised(c) => Cardinality(At(c, "send", "error")) = 1]_vars

\* C16, its case: the first frame raised in parsing and was answered with an
\* error frame only (no user_message of it is in the log); the second frame was
\* then handled to its end, after the client had gone.
C16_Witness ==
  \E c \in Conns :
    /\ nmsgs[c] = 2 /\ Handled(c) /\ loc[c].message = "hi"
    /\ Cardinality(EventsOf(session_id[c], "user_message")) = 1
    /\ LoggedAt(c, "ai_response") # {}
    /\ ~ws_open[c]
    /\ \E i \in At(c, "send", "ai_response_complete") : ~trace[c][i].ok

\* The frame coroutine c took last is the command prefix with no function name.
NoFunctionName(c) ==
  /\ loc[c].message_text # Null
  /\ IsCommand(loc[c].message_text)
  /\ Len(Split2(loc[c].message_text)) < 2

\* C17: a command with no function name has two effects only, the user_message
\* event of its text and one system frame with the usage: no function_call
\* event, no function_result, no typing frame, no request to the Completion
\* Engine, no ai_response event, and the conversation history stays as it is.
C17_UsageOnly ==
  [][\A c \in Conns :
       /\ Handled(c) /\ NoFunctionName(c) /\ StoreReachable(c) =>
            /\ Len(trace[c]) = 2
            /\ trace[c][1].k = "log" /\ trace[c][1].type = "user_message"
            /\ trace[c][1].content = loc[c].message
            /\ trace[c][2].k = "send" /\ trace[c][2].type = "system"
            /\ trace[c][2].content = Usage
       /\ pc'[c] # pc[c] /\ pc[c] \in HandlingSteps \ {"hm_parse", "hm_log"}
          /\ NoFunctionName(c) =>
            /\ chat_sessions' = chat_sessions
            /\ event_log' = event_log
            /\ pc'[c] \in {"fc_parse", "fc_usage", "receive"}]_vars

\* C17, its case: after a chat turn that left a conversation history, the
\* command with no function name was answered with the usage.
C17_Witness ==
  \E c \in Conns :
    /\ Handled(c) /\ NoFunctionName(c) /\ nmsgs[c] = 2
    /\ session_id[c] \in DOMAIN chat_sessions
    /\ Len(chat_sessions[session_id[c]].turns) = 2
    /\ Len(trace[c]) = 2 /\ trace[c][2].content = Usage

\* The texts handle_function_call may synthesize for the chat turn.
ContextMessages ==
  {ContextMessage(f, SimulateFunctionCall(f, "{}")) : f \in KnownFunctions \cup {"echo"}}

\* C18: a function command logs one user_message event, with the text of the
\* command; a user_message event is written by handle_message only, once for a
\* frame and with the text resolved from it, never with the text synthesized
\* for the chat turn; so a session has as many user_message events as frames
\* whose user_message was logged, and no more than frames received.
C18_OneUserMessagePerFrame ==
  [][\A c \in Conns :
       /\ Handled(c) /\ WellFormedCommand(c) /\ StoreReachable(c) =>
            /\ Cardinality(LoggedAt(c, "user_message")) = 1
            /\ \A i \in LoggedAt(c, "user_message") : trace[c][i].content = loc[c].message
            /\ \A i \in At(c, "completion", "request") :
                 /\ trace[c][i].content \in ContextMessages
                 /\ trace[c][i].content # loc[c].message
       /\ Cardinality(LoggedAt(c, "user_message")) <= 1
       /\ \/ Cardinality(EventsOf(session_id[c], "user_message")) <= nmsgs[c]
          \/ session_id[c] \in Refused
       /\ \A i \in 1..Len(event_log') :
            /\ i > Len(event_log)
            /\ event_log'[i].event_type = "user_message"
            /\ event_log'[i].session_id = session_id[c]
            => /\ pc[c] = "hm_log" /\ pc'[c] = "hm_dispatch"
               /\ LoggedAt(c, "user_message") = {}
               /\ event_log'[i].content = MessageText(loc[c].message)
               /\ event_log'[i].content \notin ContextMessages]_vars

\* C18, its case: a function command was handled to the end of its chat turn,
\* which asked the Completion Engine about the synthesized text, and the session
\* has the one user_message event of the command; a second frame follows.
C18_Witness ==
  \E c \in Conns :
    /\ Handled(c) /\ WellFormedCommand(c) /\ StoreReachable(c)
    /\ LoggedAt(c, "ai_response") # {}
    /\ \E i \in At(c, "completion", "request") : trace[c][i].content \in ContextMessages
    /\ Cardinality(EventsOf(session_id[c], "user_message")) = 1
    /\ nmsgs[c] = 1 /\ frames[c] # <<>>

\* The turns alternate user, assistant, user, ... and the last one is a user turn.
AlternatesToUser(turns) ==
  /\ \A i \in 1..Len(turns) : turns[i].role = IF i % 2 = 1 THEN "user" ELSE "assistant"
  /\ Len(turns) % 2 = 1

\* C19: while a completion request of a session is under way, the conversation
\* history of the session alternates user, assistant, user, ... and ends with a
\* user turn, also in the request that follows a turn whose completion call
\* failed; an assistant turn is appended only when the stream of the preceding
\* user turn is over, with all the text received.
C19_HistoryAlternates ==
  [][\A c \in Conns :
       /\ pc[c] \in {"sr_next", "chunk"} /\ session_id[c] \in DOMAIN chat_sessions =>
            AlternatesToUser(chat_sessions[session_id[c]].turns)
       /\ /\ session_id[c] \in DOMAIN chat_sessions
          /\ session_id[c] \in DOMAIN chat_sessions'
          /\ pc'[c] # pc[c]
          /\ Len(chat_sessions'[session_id[c]].turns) > Len(chat_sessions[session_id[c]].turns)
          /\ chat_sessions'[session_id[c]].turns[Len(chat_sessions'[session_id[c]].turns)].role
               = "assistant"
          => /\ pc[c] = "sr_next" /\ pc'[c] = "typing_false"
             /\ chat_sessions'[session_id[c]].turns[Len(chat_sessions'[session_id[c]].turns)]
                  .content = loc[c].gen_full]_vars

\* C20: teardown always completes: whichever of its remote calls fail, the
\* fallback update included, a disconnect that has begun reaches its end through
\* the steps of disconnect and process_session only, and then the registry holds
\* no handle and no conversation history of the session.
C20_TeardownCompletes ==
  /\ [](\A c \in Conns :
          pc[c] = "done" => /\ session_id[c] \notin DOMAIN active_connections
                            /\ session_id[c] \notin DOMAIN chat_sessions)
  /\ [][\A c \in Conns :
          pc'[c] # pc[c] /\ pc[c] \in SummarizerSteps \cup {"disconnect", "clear"} =>
            pc'[c] \in SummarizerSteps \cup {"clear", "done"}]_vars
  /\ \A c \in Conns : (pc[c] = "disconnect") ~> (pc[c] = "done")

\* C20, its case: after a chat turn, the teardown ended although a call of
\* process_session and then the fallback update_session had failed.
C20_Witness ==
  \E c \in Conns :
    /\ pc[c] = "done" /\ nmsgs[c] = 1
    /\ session_id[c] \in DOMAIN session_metadata
    /\ session_metadata[session_id[c]].end_time = None
    /\ \E i \in At(c, "get_session_events", Null), j \in 1..Len(trace[c]) :
         /\ i < j
         /\ ~trace[c][i].ok
         /\ trace[c][j].k = "update_session" /\ ~trace[c][j].ok
         /\ trace[c][j].type = "Summary generation failed: " \o StoreDown

\* The summaries that record why a step of process_session failed.
FailureSummaries ==
  {"Summary generation failed: " \o e : e \in {LlmDown, StoreDown, ForeignKey}}

\* process_session has returned for coroutine c, after having found the session
\* row and a transcript that is not empty.
Summarized(c) ==
  /\ pc[c] \in {"clear", "done"}
  /\ At(c, "get_session", "found") # {}
  /\ At(c, "completion", "summary") # {}

\* Every update_session of the current teardown of c was accepted.
UpdatesAccepted(c) ==
  \A i \in 1..Len(trace[c]) : trace[c][i].k = "update_session" => trace[c][i].ok

\* C21: when the summary request fails in the teardown of an existing session
\* with a non-empty transcript and the store accepts the updates, the session row
\* has, once process_session has returned, its end_time set and a summary that
\* records the reason of the failure.
C21_FailedSummaryRecorded ==
  \A c \in Conns :
    /\ Summarized(c)
    /\ \E i \in At(c, "completion", "summary") : ~trace[c][i].ok
    /\ UpdatesAccepted(c)
    => /\ session_id[c] \in DOMAIN session_metadata
       /\ session_metadata[session_id[c]].end_time # None
       /\ session_metadata[session_id[c]].session_summary \in FailureSummaries
       /\ (\A i \in 1..Len(trace[c]) : trace[c][i].k = "log" => trace[c][i].ok)
            => session_metadata[session_id[c]].session_summary
                 = "Summary generation failed: " \o LlmDown

\* C21, its case: after a chat turn the summary request failed, the update was
\* accepted and the teardown has ended.
C21_Witness ==
  \E c \in Conns :
    /\ pc[c] = "done" /\ nmsgs[c] = 1
    /\ \E i \in At(c, "completion", "summary") : ~trace[c][i].ok
    /\ \E i \in At(c, "update_session", "Summary generation failed: " \o LlmDown) :
         trace[c][i].ok
    /\ session_metadata[session_id[c]].session_summary
         = "Summary generation failed: " \o LlmDown
    /\ session_metadata[session_id[c]].end_time # None

\* get_session found no row of the session in the current teardown of c.
SessionAbsent(c) == At(c, "get_session", "absent") # {}

\* C22: when process_session finds no row of the session it is a no-op on the
\* store: it returns at once, having read no events, requested no summary, called
\* no update_session and logged no event, and the rows and the event log are as
\* they were; disconnect still discards the conversation history of the session.
C22_AbsentSessionNoOp ==
  /\ [](\A c \in Conns :
          SessionAbsent(c) =>
            /\ pc[c] \in {"clear", "done"}
            /\ \A i \in 1..Len(trace[c]) :
                 trace[c][i].k \notin {"get_session_events", "completion",
                                       "update_session", "log"}
            /\ pc[c] = "done" =>
                 /\ session_id[c] \notin DOMAIN chat_sessions
                 /\ \E i \in At(c, "clear_session", Null) : trace[c][i].ok)
  /\ [][\A c \in Conns :
          pc[c] \in {"ps_get", "clear"} /\ pc'[c] # pc[c]
          /\ (SessionAbsent(c) \/ session_id[c] \notin DOMAIN session_metadata)
          /\ pc'[c] # "ps_fallback"
          => /\ session_metadata' = session_metadata
             /\ event_log' = event_log]_vars

\* C22, its case: the session row could not be created at connect, and the
\* teardown of the connection has ended.
C22_Witness ==
  \E c \in Conns :
    /\ pc[c] = "done"
    /\ SessionAbsent(c)
    /\ session_id[c] \notin DOMAIN session_metadata
    /\ session_id[c] \notin Refused

\* disconnect has begun for the session identifier: a connection that presented
\* it has removed the handle and is in, or past, the summarizer.
TornDown(sid) ==
  \E c \in Conns : session_id[c] = sid /\ pc[c] \in SummarizerSteps \cup {"clear", "done"}

\* C23: a session never goes back to ACTIVE: once disconnect has begun for a
\* session identifier, the registry never again holds a connection handle under
\* that identifier, also when a new connection attempt presents it.
C23_NoReuseAfterDisconnect ==
  \A sid \in Ids : TornDown(sid) => sid \notin DOMAIN active_connections

\* The connections that are inside handle_message, and inside disconnect, for the
\* session identifier.
Handling(sid) == {c \in Conns : session_id[c] = sid /\ pc[c] \in HandlingSteps}
Disconnecting(sid) ==
  {c \in Conns : session_id[c] = sid /\ pc[c] \in SummarizerSteps \cup {"clear"}}

\* C24: the handling of messages is serialized per session identifier: at most
\* one handle_message is in progress for an identifier at any time, and no
\* disconnect (removal of the handle, summarizer, discard of the history) runs
\* for it while one is in progress, also when two connections presented it.
C24_HandlingSerialized ==
  \A sid \in Ids :
    /\ Cardinality(Handling(sid)) <= 1
    /\ Handling(sid) # {} => Disconnecting(sid) = {}

\* What a dictionary holds under a key, if anything.
Entry(dict, key) == IF key \in DOMAIN dict THEN <<dict[key]>> ELSE <<>>

\* The connections that take part in a step: the coroutine that moves, or the
\* client whose socket closes.
Movers == {c \in Conns : pc'[c] # pc[c] \/ ws_open'[c] # ws_open[c]}

\* C25: sessions are isolated: a step of connect, handle_message,
\* stream_llm_response, handle_function_call or disconnect for a session, a failed
\* remote call included, leaves as they were the registry entry, the conversation
\* history and the logged events of every session with another identifier, and
\* the connection of that session (its socket, its close code, its position).
C25_SessionsIsolated ==
  [][\A b \in Conns :
       (\A a \in Movers : session_id[a] # session_id[b]) =>
         /\ Entry(active_connections', session_id[b]) = Entry(active_connections, session_id[b])
         /\ Entry(chat_sessions', session_id[b]) = Entry(chat_sessions, session_id[b])
         /\ EventRows(event_log', session_id[b]) = EventRows(event_log, session_id[b])
         /\ ws_open'[b] = ws_open[b]
         /\ close_code'[b] = close_code[b]
         /\ pc'[b] = pc[b]]_vars

\* C25, its case: a session with a conversation history and a registered handle,
\* while the teardown of a session with another identifier has run, a remote call
\* having failed in one of the two.
C25_Witness ==
  \E a, b \in Conns :
    /\ session_id[a] # session_id[b]
    /\ pc[a] = "done" /\ At(a, "clear_session", Null) # {}
    /\ session_id[b] \in DOMAIN chat_sessions
    /\ Entry(active_connections, session_id[b]) = <<b>>
    /\ EventsOf(session_id[b], "user_message") # {}
    /\ faults > 0

\* Where, in the current operation of c, the typing indicator was sent with the
\* given content, and where the ai_response write was attempted.
TypingAt(c, content) == {i \in At(c, "send", "typing") : trace[c][i].content = content}
AiLogAt(c) == At(c, "log", "ai_response")

\* The stream of the chat turn of c came to its end without raising.
Exhausted(c) == At(c, "completion", "end") # {}

\* C26: in a chat turn whose stream is exhausted normally the sends and the log
\* write come in this order: typing=true, every ai_response_chunk, typing=false,
\* ai_response_complete, and then the one write of the ai_response event; no chunk
\* follows typing=false and the event is not written before ai_response_complete
\* is sent.
C26_TurnOrder ==
  \A c \in Conns :
    /\ \A i \in TypingAt(c, "true"), j \in At(c, "send", "ai_response_chunk") : i < j
    /\ \A i \in At(c, "send", "ai_response_chunk"), j \in TypingAt(c, "false") : i < j
    /\ \A i \in TypingAt(c, "false"), j \in At(c, "send", "ai_response_complete") : i < j
    /\ \A i \in At(c, "send", "ai_response_complete"), j \in AiLogAt(c) : i < j
    /\ AiLogAt(c) # {} => At(c, "send", "ai_response_complete") # {}
    /\ At(c, "send", "ai_response_complete") # {} => TypingAt(c, "false") # {}
    /\ Cardinality(AiLogAt(c)) <= 1
    /\ Handled(c) /\ Exhausted(c) =>
         /\ Cardinality(TypingAt(c, "true")) = 1
         /\ Cardinality(TypingAt(c, "false")) = 1
         /\ Cardinality(At(c, "send", "ai_response_complete")) = 1
         /\ Cardinality(AiLogAt(c)) = 1
         /\ Cardinality(At(c, "send", "ai_response_chunk"))
              = Cardinality({i \in At(c, "completion", "fragment") : trace[c][i].content # ""})

\* C26, its case: a turn of two chunks is over, its stream exhausted and its
\* ai_response event written.
C26_Witness ==
  \E c \in Conns :
    /\ Handled(c) /\ Exhausted(c)
    /\ Cardinality(At(c, "send", "ai_response_chunk")) = 2
    /\ LoggedAt(c, "ai_response") # {}

\* The non-empty fragments the Completion Engine delivered in the current
\* operation of c, in the order of their arrival.
Fragments(c) ==
  SelectSeq(trace[c], LAMBDA e : e.k = "completion" /\ e.type = "fragment" /\ e.ok
                                 /\ e.content # "")

\* C27: in every chat turn the ai_response_chunk contents sent to a live client
\* are the non-empty fragments the Completion Engine delivered, in the same order
\* and one send per fragment: none is reordered, merged, duplicated or dropped,
\* and nothing else is sent as a chunk.
C27_ChunksAreFragments ==
  \A c \in Conns :
    Handled(c) /\ Live(c) /\ At(c, "send", "typing") # {} =>
      Contents(Sends(c, "ai_response_chunk")) = Contents(Fragments(c))

\* Where update_session was called in the current teardown of c, and whether
\* the first of these calls, that of the main path, was accepted.
UpdatesAt(c) == {i \in 1..Len(trace[c]) : trace[c][i].k = "update_session"}
MainUpdateAccepted(c) ==
  \E i \in UpdatesAt(c) : trace[c][i].ok /\ \A j \in UpdatesAt(c) : i <= j

\* Coroutine c is in, or past, a run of process_session.
InTeardown(c) == pc[c] \in SummarizerSteps \cup {"clear", "done"}

\* The completion event the run of c has just logged carries the duration written
\* to the session row and the number of events read at the start of the run.
CompletionMetadata(c) ==
  pc[c] = "clear" /\ LoggedAt(c, "system_event") # {} =>
    LET e == event_log[Len(event_log)]
        row == session_metadata[session_id[c]]
    IN  /\ e.session_id = session_id[c]
        /\ e.event_type = "system_event"
        /\ e.content = "Session ended and summary generated"
        /\ row.duration_seconds # None
        /\ e.metadata.duration_seconds = row.duration_seconds[1]
        /\ e.metadata.event_count = Len(loc[c].events)
        /\ Len(SessionEvents(session_id[c])) = Len(loc[c].events) + 1

\* No completion event on the absent-session and the empty-transcript paths.
NoCompletionWithoutSummary(c) ==
  InTeardown(c) /\ At(c, "completion", "summary") = {} => At(c, "log", "system_event") = {}

\* C28, as claimed: each run of process_session on an existing session with a
\* non-empty transcript logs exactly one completion system_event, after the
\* session update, with the duration written to the row and the number of events
\* read; the absent-session and empty-transcript paths log none.
C28_OneCompletionEventEachRun ==
  \A c \in Conns :
    /\ Summarized(c) =>
         /\ Cardinality(LoggedAt(c, "system_event")) = 1
         /\ \A i \in LoggedAt(c, "system_event") :
              \E j \in UpdatesAt(c) : j < i /\ trace[c][j].ok
    /\ CompletionMetadata(c)
    /\ NoCompletionWithoutSummary(c)

\* C28: a run of process_session on an existing session with a non-empty
\* transcript attempts the completion system_event once, after the session
\* update, if that update was accepted, and not at all if it was refused; the
\* event, when the store takes it, carries the duration_seconds written to the
\* session row and, as event_count, the number of events read at the start of
\* the run; on the absent-session path and on the empty-transcript path no
\* completion system_event is logged.
C28_CompletionEvent ==
  \A c \in Conns :
    /\ Summarized(c) =>
         /\ MainUpdateAccepted(c) =>
              /\ Cardinality(At(c, "log", "system_event")) = 1
              /\ \A i \in At(c, "log", "system_event") :
                   /\ trace[c][i].content = "Session ended and summary generated"
                   /\ \E j \in UpdatesAt(c) : j < i /\ trace[c][j].ok
         /\ ~MainUpdateAccepted(c) => At(c, "log", "system_event") = {}
    /\ CompletionMetadata(c)
    /\ NoCompletionWithoutSummary(c)

\* C28, its case: a run has logged its completion event after a chat turn, over
\* a transcript of at least three events.
C28_Witness ==
  \E c \in Conns :
    /\ pc[c] = "clear" /\ LoggedAt(c, "system_event") # {}
    /\ Len(loc[c].events) >= 3
    /\ event_log[Len(event_log)].metadata.event_count = Len(loc[c].events)

\* The frame coroutine c handles is a function command whose third part is no
\* JSON value.
BadParameters(c) ==
  /\ loc[c].message_text # Null
  /\ IsCommand(loc[c].message_text)
  /\ Len(Split2(loc[c].message_text)) > 2
  /\ JsonParams(Split2(loc[c].message_text)[3]) = Null

\* C29: handle_function_call rejects a function command whose third part is not
\* a valid JSON value: its only effect is one error-typed message "Function call
\* failed: ..."; no function_call event is logged, no function_result is sent, no
\* chat turn starts (no typing indicator, no history append, no completion
\* request), and the connection stays registered.
C29_BadParametersRejected ==
  [][\A c \in Conns :
       /\ Handled(c) /\ BadParameters(c) /\ LoggedAt(c, "user_message") # {} =>
            /\ Len(trace[c]) = 2
            /\ trace[c][1].k = "log" /\ trace[c][1].type = "user_message"
            /\ trace[c][2].k = "send" /\ trace[c][2].type = "error"
            /\ trace[c][2].content = "Function call failed: " \o BadJson
            /\ Entry(active_connections, session_id[c]) = <<c>>
            /\ session_id[c] \notin DOMAIN chat_sessions
            /\ EventsOf(session_id[c], "function_call") = {}
       /\ pc'[c] # pc[c] /\ pc[c] \in HandlingSteps \ {"hm_parse", "hm_log"}
          /\ BadParameters(c) /\ LoggedAt(c, "user_message") # {} =>
            /\ chat_sessions' = chat_sessions
            /\ event_log' = event_log
            /\ active_connections' = active_connections
            /\ pc'[c] \in {"fc_parse", "fc_error", "receive"}]_vars

\* C29, its case: the command with the unparseable parameters was handled and
\* answered to a client that is still there.
C29_Witness ==
  \E c \in Conns :
    /\ Handled(c) /\ BadParameters(c)
    /\ Delivered(c, "error") # <<>>
    /\ loc[c].function_name = "echo"

\* Where, in the current teardown of c, a call of the main path of process_session
\* raised, and where the fallback update was called: right after such a call.
RaisedAt(c) ==
  {i \in 1..Len(trace[c]) :
     /\ ~trace[c][i].ok
     /\ trace[c][i].k \in {"get_session", "get_session_events", "update_session", "log"}
     /\ ~(i > 1 /\ trace[c][i].k = "update_session" /\ ~trace[c][i-1].ok
          /\ trace[c][i-1].k \in {"get_session", "get_session_events", "update_session", "log"})}
FallbackAt(c) == {i \in UpdatesAt(c) : i - 1 \in RaisedAt(c)}

\* C30: the fallback update of process_session runs for any exception of the
\* main path, not for a failed summary only. When the update with the generated
\* summary was accepted and the completion log_event then fails, a second
\* update_session is issued which replaces the stored summary by "Summary
\* generation failed: ..." and end_time by the timestamp read at that later
\* moment (not an earlier one unless the clock was set back), and leaves
\* duration_seconds as first written; and when the fallback is the only accepted
\* update, the session ends with end_time and summary set and duration_seconds
\* unset.
C30_FallbackForAnyException ==
  /\ [](\A c \in Conns :
          InTeardown(c) =>
            /\ \A i \in RaisedAt(c) :
                 IF i = Len(trace[c]) THEN pc[c] = "ps_fallback" ELSE i + 1 \in FallbackAt(c)
            /\ \A i \in FallbackAt(c) : trace[c][i].type \in FailureSummaries
            /\ Cardinality(FallbackAt(c)) <= 1
            /\ pc[c] \in {"clear", "done"}
               /\ session_id[c] \in DOMAIN session_metadata
               /\ (\E i \in FallbackAt(c) : trace[c][i].ok)
               => LET row == session_metadata[session_id[c]]
                  IN  /\ row.end_time # None
                      /\ \A i \in FallbackAt(c) : row.session_summary = trace[c][i].type
                      /\ (\A j \in UpdatesAt(c) \ FallbackAt(c) : ~trace[c][j].ok)
                           <=> row.duration_seconds = None)
  /\ [][\A c \in Conns :
          pc[c] = "ps_fallback" /\ pc'[c] = "clear"
          /\ session_id[c] \in DOMAIN session_metadata
          /\ trace'[c][Len(trace'[c])].ok
          => LET row == session_metadata[session_id[c]]
                 new == session_metadata'[session_id[c]]
             IN  /\ new.end_time = Some(clock')
                 /\ new.session_summary = "Summary generation failed: " \o loc[c].exc
                 /\ new.duration_seconds = row.duration_seconds
                 /\ At(c, "log", "system_event") # {} =>
                      /\ row.end_time = loc[c].end_time
                      /\ row.end_time # None
                      /\ row.duration_seconds = loc[c].duration_seconds
                      /\ row.duration_seconds # None]_vars
  /\ [][clock' >= clock \/ faults' > faults]_vars

\* C30, its case: the update with the generated summary was accepted, the
\* completion log_event failed, and the fallback update has replaced the summary
\* and left the duration.
C30_Witness ==
  \E c \in Conns :
    /\ pc[c] = "clear"
    /\ \E i \in UpdatesAt(c), j \in At(c, "log", "system_event"), k \in FallbackAt(c) :
         /\ i < j /\ j < k
         /\ trace[c][i].ok /\ trace[c][i].type \in Summaries
         /\ ~trace[c][j].ok /\ trace[c][k].ok
    /\ session_metadata[session_id[c]].session_summary = "Summary generation failed: " \o StoreDown
    /\ session_metadata[session_id[c]].duration_seconds # None

\* The events of a conversation, as opposed to the system events.
ConversationEvents == {"user_message", "function_call", "ai_response"}

\* C31: for a session served by one connection, a chat turn in progress when the
\* client goes away runs to its end, the failed sends being swallowed, and its
\* ai_response write is made before the teardown starts: the handler leaves only
\* to await the next frame, the teardown starts only from there, process_session
\* reads a transcript that holds every conversation event of the session, and no
\* user_message, function_call or ai_response event of the session follows its
\* completion system_event in the log.
C31_TurnEndsBeforeTeardown ==
  /\ [](\A c \in Conns :
          /\ Handled(c) /\ TypingAt(c, "true") # {} =>
               /\ Cardinality(TypingAt(c, "false")) = 1
               /\ Cardinality(At(c, "send", "ai_response_complete")) = 1
               /\ Cardinality(AiLogAt(c)) = 1
               /\ \A i \in LoggedAt(c, "ai_response") :
                    /\ event_log[Len(event_log)].session_id = session_id[c]
                    /\ event_log[Len(event_log)].event_type = "ai_response"
                    /\ event_log[Len(event_log)].content = trace[c][i].content
          /\ pc[c] \in {"ps_empty", "ps_summary", "ps_update", "ps_log", "clear"}
             /\ (\E i \in At(c, "get_session_events", Null) : trace[c][i].ok) =>
               SelectSeq(SessionEvents(session_id[c]),
                         LAMBDA e : e.event_type \in ConversationEvents)
                 = SelectSeq(loc[c].events, LAMBDA e : e.event_type \in ConversationEvents)
          /\ \A i \in CompletionEvents(session_id[c]) : \A j \in 1..Len(event_log) :
               i < j /\ event_log[j].session_id = session_id[c] =>
                 event_log[j].event_type \notin ConversationEvents)
  /\ [][\A c \in Conns :
          pc'[c] # pc[c] =>
            /\ pc[c] \in HandlingSteps => pc'[c] \in HandlingSteps \cup {"receive"}
            /\ pc'[c] = "disconnect" => pc[c] = "receive"
            /\ InTeardown(c) =>
                 /\ InTeardown(c)'
                 /\ \A j \in Len(event_log) + 1..Len(event_log') :
                      event_log'[j].event_type \notin ConversationEvents]_vars

\* C31, its case: the client went away during a chat turn, a chunk could not be
\* sent, and the turn has ended with its ai_response in the log.
C31_Witness ==
  \E c \in Conns :
    /\ Handled(c) /\ ~ws_open[c]
    /\ \E i \in At(c, "send", "ai_response_chunk") : ~trace[c][i].ok /\ trace[c][i].to = c
    /\ LoggedAt(c, "ai_response") # {}
    /\ event_log[Len(event_log)].event_type = "ai_response"
=============================================================================
